---- MODULE Spec2Model ----
(***************************************************************************)
(* A model of aedes-persistence-mysql (src/index.js): the readiness gate,  *)
(* the asynchronous schema provisioning, the five relations with the       *)
(* statements the store operations issue against them, and the translation *)
(* of MQTT topic filters into REGEXP patterns.                             *)
(*                                                                         *)
(* A store operation is two steps: the call (gate check, pool.execute) and *)
(* the settlement of the promise (the statement runs on the backing store  *)
(* and the callback fires, or the statement fails and the callback gets    *)
(* the error).  Statements of different calls settle in any order, as on   *)
(* the connections of a pool.                                              *)
(***************************************************************************)
EXTENDS Integers, Sequences, FiniteSets, TLC

VARIABLES
  pool,             \* this.pool: "null", "open" or "ended"
  _ready,           \* this._ready
  _closed,          \* this._closed
  ttlSubscriptions, \* this.ttl.subscriptions (0 stands for null)
  setupPc,          \* what _setup / _createTables is awaiting
  setupDead,        \* the awaited statement was issued on an ended connection
  schema,           \* the DDL statements that have succeeded
  ending,           \* the promise of pool.end() is pending
  poolEndCalls,     \* how often pool.end() was invoked
  subscriptions,    \* aedes_subscriptions
  retained,         \* aedes_retained
  outgoing,         \* aedes_outgoing
  nextOutId,        \* AUTO_INCREMENT counter of aedes_outgoing
  incoming,         \* aedes_incoming
  will,             \* aedes_will
  calls,            \* the calls whose statement has not settled yet
  enqLog,           \* history: the rows of aedes_outgoing in the order inserted
  ev,               \* the last event: a call, a settlement (callback), a setup step
  mFilter,          \* topic matcher check: the levels of the filter
  mTopic,           \* topic matcher check: the levels of the stored topic
  mPc,              \* topic matcher check: "input" or "matched"
  mResult,          \* topic matcher check: the outcome of topic REGEXP pattern
  optsTtl,          \* opts.ttl as given to the constructor
  ttl,              \* this.ttl
  stale,            \* the keys of aedes_subscriptions whose created_at is older than the TTL
  eventTick,        \* toggles at each run of the scheduled event
  cbThrows          \* the caller's callbacks throw when first invoked

lifeVars == <<pool, _ready, _closed, ttlSubscriptions, setupPc, setupDead, schema,
              ending, poolEndCalls>>
tables == <<subscriptions, retained, outgoing, nextOutId, incoming, will>>
matchVars == <<mFilter, mTopic, mPc, mResult>>
ttlVars == <<optsTtl, ttl, stale, eventTick>>
vars == <<lifeVars, tables, calls, enqLog, ev, matchVars, ttlVars, cbThrows>>

(***************************************************************************)
(* Bounds of the model.                                                    *)
(***************************************************************************)
MaxInflight == 2      \* calls awaiting their statement at one time (the store specifications)
MaxOutstanding == 1   \* calls awaiting their statement at one time (Spec)
MaxQueue == 3         \* rows ever inserted into aedes_outgoing
MaxTopicLevels == 4   \* levels of a stored topic in the matcher check
MaxFilterLevels == 3  \* levels of a filter in the matcher check

\* packet.messageId || null: a missing message id and 0 are both stored as NULL
NullId == 0

(***************************************************************************)
(* Topics and filters are sequences of characters.                         *)
(***************************************************************************)
RECURSIVE Join(_)
Join(levels) ==
  IF levels = <<>> THEN <<>>
  ELSE IF Len(levels) = 1 THEN levels[1]
  ELSE levels[1] \o <<"/">> \o Join(Tail(levels))

RECURSIVE ReplaceAll(_, _, _)
\* String.prototype.replace with a global single-character regular expression
ReplaceAll(s, c, r) ==
  IF s = <<>> THEN <<>>
  ELSE (IF Head(s) = c THEN r ELSE <<Head(s)>>) \o ReplaceAll(Tail(s), c, r)

\* a plausible slip: '+' translated to a run of any characters
SqlPatternAnyRun(pattern) ==
  <<"^">> \o ReplaceAll(ReplaceAll(pattern, "+", <<".", "+">>), "#", <<".", "*">>) \o <<"$">>

\* '^' + pattern.replace(/\+/g, '[^/]+').replace(/#/g, '.*') + '$'
SqlPattern(pattern) ==
  <<"^">> \o ReplaceAll(ReplaceAll(pattern, "+", <<"[", "^", "/", "]", "+">>),
                        "#", <<".", "*">>) \o <<"$">>

(***************************************************************************)
(* topic REGEXP ?: the regular expressions the translation can produce     *)
(* over the alphabet of the model: literals, '.', '[^/]', the postfix      *)
(* quantifiers '*' and '+', and the anchors.                               *)
(***************************************************************************)
IsQuant(p, i) == i <= Len(p) /\ p[i] \in {"*", "+"}

RECURSIVE RegexTokens(_, _)
RegexTokens(p, i) ==
  IF i > Len(p) THEN <<>>
  ELSE IF p[i] = "^" THEN <<[kind |-> "bol", ch |-> "", q |-> "1"]>> \o RegexTokens(p, i + 1)
  ELSE IF p[i] = "$" THEN <<[kind |-> "eol", ch |-> "", q |-> "1"]>> \o RegexTokens(p, i + 1)
  ELSE
    LET bracket == p[i] = "["
        n == IF bracket THEN 4 ELSE 1
        kind == IF bracket THEN "notslash" ELSE IF p[i] = "." THEN "any" ELSE "lit"
        quant == IsQuant(p, i + n)
    IN <<[kind |-> kind, ch |-> p[i], q |-> IF quant THEN p[i + n] ELSE "1"]>>
       \o RegexTokens(p, i + n + (IF quant THEN 1 ELSE 0))

CharOk(t, c) ==
  CASE t.kind = "lit" -> c = t.ch
    [] t.kind = "any" -> TRUE
    [] t.kind = "notslash" -> c # "/"
    [] OTHER -> FALSE

RECURSIVE MatchAt(_, _, _, _)
MatchAt(ts, i, s, j) ==
  IF i > Len(ts) THEN TRUE
  ELSE LET t == ts[i] IN
    IF t.kind = "bol" THEN j = 1 /\ MatchAt(ts, i + 1, s, j)
    ELSE IF t.kind = "eol" THEN j = Len(s) + 1 /\ MatchAt(ts, i + 1, s, j)
    ELSE IF t.q = "1" THEN j <= Len(s) /\ CharOk(t, s[j]) /\ MatchAt(ts, i + 1, s, j + 1)
    ELSE \E k \in (IF t.q = "+" THEN j + 1 ELSE j) .. (Len(s) + 1) :
           /\ \A m \in j .. (k - 1) : CharOk(t, s[m])
           /\ MatchAt(ts, i + 1, s, k)

\* topic REGEXP pattern: the pattern is found somewhere in the topic
Regexp(topic, p) ==
  LET ts == RegexTokens(p, 1)
  IN \E start \in 1 .. (Len(topic) + 1) : MatchAt(ts, 1, topic, start)

(***************************************************************************)
(* The statements.                                                         *)
(***************************************************************************)
RetainedRow(packet) ==
  [topic |-> packet.topic, payload |-> packet.payload, qos |-> packet.qos]

\* a plausible slip: a plain INSERT, no unique key on topic
InsertRetainedNoKey(tbl, packet) == tbl \cup {RetainedRow(packet)}

\* INSERT INTO aedes_retained ... ON DUPLICATE KEY UPDATE payload, qos
UpsertRetained(tbl, packet) ==
  IF \E r \in tbl : r.topic = packet.topic
  THEN {IF r.topic = packet.topic
        THEN [r EXCEPT !.payload = packet.payload, !.qos = packet.qos]
        ELSE r : r \in tbl}
  ELSE tbl \cup {RetainedRow(packet)}

\* SELECT topic, payload, qos FROM aedes_retained WHERE topic REGEXP ? OR ...
SelectRetained(tbl, patterns) ==
  {r \in tbl : \E i \in 1 .. Len(patterns) : Regexp(r.topic, SqlPattern(patterns[i]))}

SubscriptionRow(clientId, sub) ==
  [client_id |-> clientId, topic |-> sub.topic, qos |-> sub.qos]

\* a plausible slip: a plain INSERT, no unique key on (client_id, topic)
InsertSubscriptionNoKey(tbl, clientId, sub) == tbl \cup {SubscriptionRow(clientId, sub)}

UpsertSubscription(tbl, clientId, sub) ==
  IF \E r \in tbl : r.client_id = clientId /\ r.topic = sub.topic
  THEN {IF r.client_id = clientId /\ r.topic = sub.topic
        THEN [r EXCEPT !.qos = sub.qos] ELSE r : r \in tbl}
  ELSE tbl \cup {SubscriptionRow(clientId, sub)}

RECURSIVE UpsertSubscriptions(_, _, _)
\* INSERT INTO aedes_subscriptions ... VALUES ? ON DUPLICATE KEY UPDATE qos:
\* the rows of the list in order
UpsertSubscriptions(tbl, clientId, subs) ==
  IF subs = <<>> THEN tbl
  ELSE UpsertSubscriptions(UpsertSubscription(tbl, clientId, Head(subs)), clientId, Tail(subs))

RECURSIVE AffectedSubscriptions(_, _, _)
\* affectedRows of the upsert: per row of the list 1 if it was inserted, 2 if it
\* changed the qos of the existing row, 0 if the row already held the qos
AffectedSubscriptions(tbl, clientId, subs) ==
  IF subs = <<>> THEN 0
  ELSE (IF SubscriptionRow(clientId, Head(subs)) \in tbl THEN 0
        ELSE IF \E r \in tbl : r.client_id = clientId /\ r.topic = Head(subs).topic THEN 2
        ELSE 1)
       + AffectedSubscriptions(UpsertSubscription(tbl, clientId, Head(subs)), clientId,
                               Tail(subs))

\* a plausible slip: the delete without the client_id condition
DeleteSubscriptionsAnyClient(tbl, clientId, topics) ==
  {r \in tbl : ~(\E i \in 1 .. Len(topics) : topics[i] = r.topic)}

\* DELETE FROM aedes_subscriptions WHERE client_id = ? AND topic IN (...)
DeleteSubscriptions(tbl, clientId, topics) ==
  {r \in tbl : ~(r.client_id = clientId /\ \E i \in 1 .. Len(topics) : topics[i] = r.topic)}

\* SELECT topic, qos FROM aedes_subscriptions WHERE client_id = ?
SelectSubscriptionsByClient(tbl, clientId) ==
  {[topic |-> r.topic, qos |-> r.qos] : r \in {x \in tbl : x.client_id = clientId}}

\* SELECT client_id, topic, qos FROM aedes_subscriptions WHERE topic REGEXP ?
SelectSubscriptionsByTopic(tbl, pattern) ==
  {[clientId |-> r.client_id, topic |-> r.topic, qos |-> r.qos] :
     r \in {x \in tbl : Regexp(x.topic, SqlPattern(pattern))}}

\* a plausible slip: the delete without its WHERE clause
DeleteAllSubscriptions(tbl, clientId) == {}

\* DELETE FROM aedes_subscriptions WHERE client_id = ?
DeleteClientSubscriptions(tbl, clientId) == {r \in tbl : r.client_id # clientId}

\* a plausible slip: the topics are counted, not the rows
CountTopics(tbl) == Cardinality({r.topic : r \in tbl})

\* SELECT COUNT(*) FROM aedes_subscriptions
CountSubscriptions(tbl) == Cardinality(tbl)

\* a plausible slip: COUNT(client_id) without DISTINCT
CountClientRows(tbl) == Cardinality(tbl)

\* SELECT COUNT(DISTINCT client_id) FROM aedes_subscriptions
CountClients(tbl) == Cardinality({r.client_id : r \in tbl})

\* SELECT DISTINCT client_id FROM aedes_subscriptions WHERE topic = ?
SelectClientList(tbl, topic) == {r.client_id : r \in {x \in tbl : x.topic = topic}}

OutgoingRow(id, clientId, packet) ==
  [id |-> id, client_id |-> clientId, message_id |-> packet.messageId,
   topic |-> packet.topic, payload |-> packet.payload, qos |-> packet.qos,
   retain_flag |-> packet.retain, dup_flag |-> packet.dup]

\* a plausible slip: every row of the statement gets the same id
InsertOutgoingSameId(tbl, next, subs, packet) ==
  tbl \cup {OutgoingRow(next, subs[i].clientId, packet) : i \in 1 .. Len(subs)}

\* INSERT INTO aedes_outgoing ... VALUES ?: one row per entry of the list, the
\* AUTO_INCREMENT ids in the order of the list
InsertOutgoing(tbl, next, subs, packet) ==
  tbl \cup {OutgoingRow(next + i - 1, subs[i].clientId, packet) : i \in 1 .. Len(subs)}

\* a plausible slip: the update without the client_id condition
UpdateOutgoingAnyClient(tbl, clientId, packet) ==
  {IF r.topic = packet.topic /\ r.payload = packet.payload
   THEN [r EXCEPT !.message_id = packet.messageId, !.dup_flag = packet.dup]
   ELSE r : r \in tbl}

\* UPDATE aedes_outgoing SET message_id = ?, dup_flag = ?
\* WHERE client_id = ? AND topic = ? AND payload = ?
UpdateOutgoing(tbl, clientId, packet) ==
  {IF r.client_id = clientId /\ r.topic = packet.topic /\ r.payload = packet.payload
   THEN [r EXCEPT !.message_id = packet.messageId, !.dup_flag = packet.dup]
   ELSE r : r \in tbl}

\* a plausible slip: the delete without the client_id condition
DeleteOutgoingAnyClient(tbl, clientId, messageId) ==
  {r \in tbl : ~(messageId # NullId /\ r.message_id = messageId)}

\* DELETE FROM aedes_outgoing WHERE client_id = ? AND message_id = ?
\* (message_id = NULL is true of no row)
DeleteOutgoing(tbl, clientId, messageId) ==
  {r \in tbl : ~(r.client_id = clientId /\ messageId # NullId /\ r.message_id = messageId)}

RECURSIVE SortById(_)
SortById(rows) ==
  IF rows = {} THEN <<>>
  ELSE LET first == CHOOSE r \in rows : \A o \in rows : r.id <= o.id
       IN <<first>> \o SortById(rows \ {first})

OutgoingPacket(row) ==
  [messageId |-> row.message_id, topic |-> row.topic, payload |-> row.payload,
   qos |-> row.qos, retain |-> row.retain_flag, dup |-> row.dup_flag]

\* a plausible slip: no ORDER BY, the rows come back newest first
SelectOutgoingNewestFirst(tbl, clientId) ==
  LET s == SortById({r \in tbl : r.client_id = clientId})
  IN [i \in 1 .. Len(s) |-> OutgoingPacket(s[Len(s) + 1 - i])]

\* SELECT * FROM aedes_outgoing WHERE client_id = ? ORDER BY id, each row pushed
\* to the stream as a packet
SelectOutgoing(tbl, clientId) ==
  LET s == SortById({r \in tbl : r.client_id = clientId})
  IN [i \in 1 .. Len(s) |-> OutgoingPacket(s[i])]

IncomingRow(clientId, packet) ==
  [client_id |-> clientId, message_id |-> packet.messageId, topic |-> packet.topic,
   payload |-> packet.payload, qos |-> packet.qos]

\* a plausible slip: a plain INSERT, no unique key on (client_id, message_id)
InsertIncomingNoKey(tbl, clientId, packet) == tbl \cup {IncomingRow(clientId, packet)}

\* INSERT INTO aedes_incoming ... ON DUPLICATE KEY UPDATE topic, payload, qos
UpsertIncoming(tbl, clientId, packet) ==
  IF \E r \in tbl : r.client_id = clientId /\ r.message_id = packet.messageId
  THEN {IF r.client_id = clientId /\ r.message_id = packet.messageId
        THEN IncomingRow(clientId, packet) ELSE r : r \in tbl}
  ELSE tbl \cup {IncomingRow(clientId, packet)}

\* SELECT * FROM aedes_incoming WHERE client_id = ? AND message_id = ?
SelectIncoming(tbl, clientId, messageId) ==
  {r \in tbl : r.client_id = clientId /\ r.message_id = messageId}

\* a plausible slip: the delete without the client_id condition
DeleteIncomingAnyClient(tbl, clientId, messageId) ==
  {r \in tbl : r.message_id # messageId}

\* DELETE FROM aedes_incoming WHERE client_id = ? AND message_id = ?
DeleteIncoming(tbl, clientId, messageId) ==
  {r \in tbl : ~(r.client_id = clientId /\ r.message_id = messageId)}

\* the packet incomingGetPacket hands to its callback
IncomingPacket(row) ==
  [messageId |-> row.message_id, topic |-> row.topic, payload |-> row.payload,
   qos |-> row.qos]

\* client.broker ? client.broker.id : null
NoBroker == ""

WillRow(client, packet) ==
  [client_id |-> client.id, topic |-> packet.topic, payload |-> packet.payload,
   qos |-> packet.qos, retain_flag |-> packet.retain, broker_id |-> client.broker]

\* a plausible slip: a plain INSERT, no unique key on client_id
InsertWillNoKey(tbl, client, packet) == tbl \cup {WillRow(client, packet)}

\* a plausible slip: broker_id missing from the ON DUPLICATE KEY UPDATE list
UpsertWillKeepBroker(tbl, client, packet) ==
  IF \E r \in tbl : r.client_id = client.id
  THEN {IF r.client_id = client.id
        THEN [WillRow(client, packet) EXCEPT !.broker_id = r.broker_id] ELSE r : r \in tbl}
  ELSE tbl \cup {WillRow(client, packet)}

\* INSERT INTO aedes_will ... ON DUPLICATE KEY UPDATE topic, payload, qos,
\* retain_flag, broker_id
UpsertWill(tbl, client, packet) ==
  IF \E r \in tbl : r.client_id = client.id
  THEN {IF r.client_id = client.id THEN WillRow(client, packet) ELSE r : r \in tbl}
  ELSE tbl \cup {WillRow(client, packet)}

\* SELECT * FROM aedes_will WHERE client_id = ?
SelectWill(tbl, clientId) == {r \in tbl : r.client_id = clientId}

\* DELETE FROM aedes_will WHERE client_id = ?
DeleteWill(tbl, clientId) == {r \in tbl : r.client_id # clientId}

\* SELECT * FROM aedes_will WHERE broker_id IN (...): a NULL broker_id is in no list
SelectWillByBrokers(tbl, brokerIds) ==
  {r \in tbl : r.broker_id # NoBroker /\ r.broker_id \in brokerIds}

\* the object streamWill pushes for a row
WillPacket(row) ==
  [clientId |-> row.client_id, topic |-> row.topic, payload |-> row.payload,
   qos |-> row.qos, retain |-> row.retain_flag, brokerId |-> row.broker_id]

(***************************************************************************)
(* Calls and events.                                                       *)
(***************************************************************************)
NoClient == [id |-> "", broker |-> NoBroker]
NoPacket == [topic |-> <<>>, payload |-> "", qos |-> 0, messageId |-> NullId,
             retain |-> FALSE, dup |-> FALSE]
NoArgs == [client |-> NoClient, packet |-> NoPacket, topics |-> <<>>, subs |-> <<>>,
           brokers |-> {}]

OfClient(client) == [NoArgs EXCEPT !.client = client]
OfPacket(packet) == [NoArgs EXCEPT !.packet = packet]
OfBoth(client, packet) == [NoArgs EXCEPT !.client = client, !.packet = packet]

\* the operations that report through a callback (the others return a stream)
CallbackOps ==
  {"storeRetained", "addSubscriptions", "removeSubscriptions", "subscriptionsByClient",
   "subscriptionsByTopic", "cleanSubscriptions", "countOffline",
   "outgoingEnqueueCombi", "outgoingUpdate", "outgoingClearMessageId",
   "incomingStorePacket", "incomingGetPacket", "incomingDelPacket", "putWill", "getWill",
   "delWill", "destroy"}

\* the outcomes the callback is invoked with at an event of this kind, in order.
\* return cb(...) and .catch(cb) invoke it once.  In .then(() => cb(...)).catch(cb)
\* an exception thrown by cb rejects the promise of then(), and the handler of
\* catch() is cb again: it is invoked a second time, with the exception.
Callbacks(kind, op, outcome) ==
  IF outcome = "issued" \/ outcome = "partial" \/ (kind # "call" /\ kind # "settle")
       \/ op \notin CallbackOps
  THEN <<>>
  ELSE IF kind = "settle" /\ outcome # "error" /\ cbThrows
  THEN <<outcome, "error">>
  ELSE <<outcome>>

NewEv(kind, op, outcome, a) ==
  [kind |-> kind, op |-> op, outcome |-> outcome, client |-> a.client,
   packet |-> a.packet, topics |-> a.topics, subs |-> a.subs, brokers |-> a.brokers,
   rows |-> {}, seq |-> <<>>, n1 |-> 0, n2 |-> 0]

FreeId == CHOOSE i \in 1 .. (Cardinality(calls) + 1) : \A c \in calls : c.id # i

\* the statements a call has in flight: two for countOffline, one otherwise
NewCall(op, a) ==
  [id |-> FreeId, op |-> op, client |-> a.client, packet |-> a.packet,
   topics |-> a.topics, subs |-> a.subs, brokers |-> a.brokers,
   dead |-> (pool # "open"),
   left |-> IF op = "countOffline" THEN {1, 2} ELSE {1}, n1 |-> 0, n2 |-> 0]

\* if (!this._ready) return cb(new Error('MySQL persistence not ready'))
\* (a stream operation: stream.destroy(new Error(...)); return stream)
NotReady(op, a) ==
  /\ ev' = NewEv("call", op, "notReady", a)
  /\ UNCHANGED <<lifeVars, tables, calls, enqLog, matchVars, ttlVars, cbThrows>>

\* an early return through the callback without a statement: cb(null, ...)
Return(op, a) ==
  /\ ev' = NewEv("call", op, "ok", a)
  /\ UNCHANGED <<lifeVars, tables, calls, enqLog, matchVars, ttlVars, cbThrows>>

\* this.pool.execute(query, params): the promise is pending
Execute(op, a) ==
  /\ calls' = calls \cup {NewCall(op, a)}
  /\ ev' = NewEv("call", op, "issued", a)
  /\ UNCHANGED <<lifeVars, tables, enqLog, matchVars, ttlVars, cbThrows>>

\* a plausible slip: an operation without the readiness check
GateMissing(op, a) == Execute(op, a)

\* the readiness check every operation starts with
Gate(op, a) == IF ~_ready THEN NotReady(op, a) ELSE Execute(op, a)

\* a plausible slip: a failed statement ends the stream with the end marker
CatchEndsStream(c) ==
  /\ calls' = calls \ {c}
  /\ ev' = NewEv("settle", c.op, "ok", c)
  /\ UNCHANGED <<lifeVars, tables, enqLog, matchVars, ttlVars, cbThrows>>

\* .catch(cb) / .catch(err => stream.destroy(err)): the statement failed
Catch(c) ==
  /\ calls' = calls \ {c}
  /\ ev' = NewEv("settle", c.op, "error", c)
  /\ UNCHANGED <<lifeVars, tables, enqLog, matchVars, ttlVars, cbThrows>>

\* .then(...): the statement succeeded, the callback gets the result
Then(c, outcome, rows, seq) ==
  /\ ~c.dead
  /\ calls' = calls \ {c}
  /\ ev' = [NewEv("settle", c.op, outcome, c) EXCEPT !.rows = rows, !.seq = seq]
  /\ UNCHANGED <<lifeVars, enqLog, matchVars, ttlVars, cbThrows>>

\* .then(() => cb(...)) of a writing statement.  n is the statement's
\* affectedRows, which the callback does not get.
ThenAffected(c, n) ==
  /\ ~c.dead
  /\ calls' = calls \ {c}
  /\ ev' = [NewEv("settle", c.op, "ok", c) EXCEPT !.n1 = n]
  /\ UNCHANGED <<lifeVars, enqLog, matchVars, ttlVars, cbThrows>>

(***************************************************************************)
(* Construction, _setup and _createTables.                                 *)
(***************************************************************************)
\* a value of the ttl option: a number, undefined or null
Undefined == [t |-> "undefined", n |-> 0]
Null == [t |-> "null", n |-> 0]
Num(n) == [t |-> "number", n |-> n]

\* ttl.packets: undefined, a number, or an object of the four packet TTLs
PacketsObject(a, b, c, d) ==
  [t |-> "object", n |-> 0, incoming |-> a, outgoing |-> b, retained |-> c, will |-> d]
EmptyObject == PacketsObject(Undefined, Undefined, Undefined, Undefined)
NoPackets == [EmptyObject EXCEPT !.t = "undefined"]
NumPackets(n) == [EmptyObject EXCEPT !.t = "number", !.n = n]

\* opts.ttl is not given
NoTtl == [given |-> FALSE, packets |-> NoPackets, subscriptions |-> Undefined]

\* a || b on these values: 0, undefined and null are falsy
OrElse(a, b) == IF a.t \in {"object"} \/ (a.t = "number" /\ a.n # 0) THEN a ELSE b

\* a plausible slip: the shorthand is applied to the incoming packets only
TtlOfIncomingOnly(o) ==
  LET given == IF o.given THEN o ELSE NoTtl
      packets == IF given.packets.t = "number"
                 THEN PacketsObject(Num(given.packets.n), Undefined, Undefined, Undefined)
                 ELSE given.packets
  IN [packets |-> OrElse(packets, EmptyObject),
      subscriptions |-> OrElse(given.subscriptions, Null)]

\* this.ttl = opts.ttl || {}
\* if (typeof this.ttl.packets === 'number') this.ttl.packets = {incoming: ..., ...}
\* this.ttl.packets = this.ttl.packets || {}
\* this.ttl.subscriptions = this.ttl.subscriptions || null
TtlOf(o) ==
  LET given == IF o.given THEN o ELSE NoTtl
      packets == IF given.packets.t = "number"
                 THEN PacketsObject(Num(given.packets.n), Num(given.packets.n),
                                    Num(given.packets.n), Num(given.packets.n))
                 ELSE given.packets
  IN [packets |-> OrElse(packets, EmptyObject),
      subscriptions |-> OrElse(given.subscriptions, Null)]

\* the number the provisioning compares with 0
Seconds(v) == IF v.t = "number" THEN v.n ELSE 0

\* ttl: {subscriptions: n}
TtlSubscriptions(n) == [given |-> TRUE, packets |-> NoPackets, subscriptions |-> Num(n)]

Tables == <<"aedes_subscriptions", "aedes_retained", "aedes_outgoing",
            "aedes_incoming", "aedes_will">>

\* what _createTables awaits, in order: the connection, the five CREATE TABLE
\* statements and, if (this.ttl.subscriptions && this.ttl.subscriptions > 0),
\* the CREATE EVENT statement
SetupStages ==
  <<"getConnection">> \o Tables
    \o (IF ttlSubscriptions > 0 THEN <<"aedes_cleanup_subscriptions">> ELSE <<>>)

StageIndex == CHOOSE i \in 1 .. Len(SetupStages) : SetupStages[i] = setupPc

SetupRunning == setupPc \notin {"done", "failed"}

InitStore ==
  /\ subscriptions = {} /\ retained = {} /\ outgoing = {} /\ nextOutId = 1
  /\ incoming = {} /\ will = {} /\ stale = {} /\ eventTick = 0
  /\ calls = {} /\ enqLog = <<>>
  /\ ev = NewEv("init", "constructor", "ok", NoArgs)

InitMatcherIdle ==
  /\ mFilter = <<>> /\ mTopic = <<>> /\ mPc = "idle"
  /\ mResult = [retained |-> FALSE, subscriptions |-> FALSE]

\* the constructor: the fields, then _setup up to its first await. createPool
\* either returns the pool or throws, and then _setup has failed.
InitInstance ==
  /\ optsTtl \in {NoTtl, TtlSubscriptions(600)}
  /\ ttl = TtlOf(optsTtl)
  /\ ttlSubscriptions = Seconds(ttl.subscriptions)
  /\ _ready = FALSE /\ _closed = FALSE
  /\ \/ pool = "open" /\ setupPc = "getConnection"
     \/ pool = "null" /\ setupPc = "failed"
  /\ setupDead = FALSE /\ schema = {} /\ ending = FALSE /\ poolEndCalls = 0

\* the callbacks the caller passes return normally
CallbacksReturn == cbThrows = FALSE

Init == InitInstance /\ InitStore /\ InitMatcherIdle /\ CallbacksReturn

\* a plausible slip: this._ready = true before the provisioning is awaited
SetupAwaitedEager ==
  /\ SetupRunning /\ ~setupDead
  /\ schema' = IF setupPc = "getConnection" THEN schema ELSE schema \cup {setupPc}
  /\ _ready' = TRUE
  /\ IF StageIndex = Len(SetupStages)
     THEN setupPc' = "done" /\ setupDead' = FALSE
     ELSE setupPc' = SetupStages[StageIndex + 1] /\ setupDead' = (pool = "ended")
  /\ ev' = NewEv("setup", setupPc, "ok", NoArgs)
  /\ UNCHANGED <<pool, _closed, ttlSubscriptions, ending, poolEndCalls,
                 tables, calls, enqLog, matchVars, ttlVars, cbThrows>>

\* the awaited step of _createTables succeeds: the next statement is issued
\* (on a connection that pool.end() has closed it can only fail), or, after the
\* last one, _createTables returns and _setup sets this._ready = true
SetupAwaited ==
  /\ SetupRunning /\ ~setupDead
  /\ schema' = IF setupPc = "getConnection" THEN schema ELSE schema \cup {setupPc}
  /\ IF StageIndex = Len(SetupStages)
     THEN setupPc' = "done" /\ _ready' = TRUE /\ setupDead' = FALSE
     ELSE /\ setupPc' = SetupStages[StageIndex + 1]
          /\ setupDead' = (pool = "ended")
          /\ UNCHANGED _ready
  /\ ev' = NewEv("setup", setupPc, "ok", NoArgs)
  /\ UNCHANGED <<pool, _closed, ttlSubscriptions, ending, poolEndCalls,
                 tables, calls, enqLog, matchVars, ttlVars, cbThrows>>

\* the awaited step fails: _createTables throws, _setup logs and rethrows
SetupThrows ==
  /\ SetupRunning
  /\ setupPc' = "failed" /\ setupDead' = FALSE
  /\ ev' = NewEv("setup", setupPc, "error", NoArgs)
  /\ UNCHANGED <<pool, _ready, _closed, ttlSubscriptions, schema, ending, poolEndCalls,
                 tables, calls, enqLog, matchVars, ttlVars, cbThrows>>

(***************************************************************************)
(* destroy.                                                                *)
(***************************************************************************)
\* a plausible slip: no check of this._closed
destroyUnguarded ==
  /\ _closed' = TRUE /\ _ready' = FALSE
  /\ IF pool # "null"
     THEN /\ pool' = "ended" /\ poolEndCalls' = poolEndCalls + 1 /\ ending' = TRUE
          /\ ev' = NewEv("call", "destroy", "issued", NoArgs)
     ELSE /\ ev' = NewEv("call", "destroy", "ok", NoArgs)
          /\ UNCHANGED <<pool, poolEndCalls, ending>>
  /\ UNCHANGED <<ttlSubscriptions, setupPc, setupDead, schema, tables, calls, enqLog,
                 matchVars, ttlVars, cbThrows>>

destroy ==
  IF _closed
  THEN /\ ev' = NewEv("call", "destroy", "ok", NoArgs)
       /\ UNCHANGED <<lifeVars, tables, calls, enqLog, matchVars, ttlVars, cbThrows>>
  ELSE /\ _closed' = TRUE /\ _ready' = FALSE
       /\ IF pool # "null"
          THEN /\ pool' = "ended" /\ poolEndCalls' = poolEndCalls + 1 /\ ending' = TRUE
               /\ ev' = NewEv("call", "destroy", "issued", NoArgs)
          ELSE /\ ev' = NewEv("call", "destroy", "ok", NoArgs)
               /\ UNCHANGED <<pool, poolEndCalls, ending>>
       /\ UNCHANGED <<ttlSubscriptions, setupPc, setupDead, schema, tables, calls, enqLog,
                      matchVars, ttlVars, cbThrows>>

\* this.pool.end().then(() => cb()).catch(cb)
destroyThen ==
  /\ ending /\ ending' = FALSE
  /\ \/ ev' = NewEv("settle", "destroy", "ok", NoArgs)
     \/ ev' = NewEv("settle", "destroy", "error", NoArgs)
  /\ UNCHANGED <<pool, _ready, _closed, ttlSubscriptions, setupPc, setupDead, schema,
                 poolEndCalls, tables, calls, enqLog, matchVars, ttlVars, cbThrows>>

(***************************************************************************)
(* The retained message store.                                             *)
(***************************************************************************)
storeRetained(packet) == Gate("storeRetained", OfPacket(packet))

storeRetainedThen(c) ==
  /\ c \in calls /\ c.op = "storeRetained"
  /\ \/ /\ Then(c, "ok", {}, <<>>)
        /\ retained' = UpsertRetained(retained, c.packet)
        /\ UNCHANGED <<subscriptions, outgoing, nextOutId, incoming, will>>
     \/ Catch(c)

createRetainedStreamCombi(patterns) ==
  Gate("createRetainedStreamCombi", [NoArgs EXCEPT !.topics = patterns])

\* rows.forEach(row => stream.push({topic, payload, qos})); stream.push(null)
createRetainedStreamCombiThen(c) ==
  /\ c \in calls /\ c.op = "createRetainedStreamCombi"
  /\ \/ Then(c, "ok", SelectRetained(retained, c.topics), <<>>) /\ UNCHANGED tables
     \/ Catch(c)

createRetainedStream(pattern) == createRetainedStreamCombi(<<pattern>>)

(***************************************************************************)
(* The subscription store.                                                 *)
(***************************************************************************)
addSubscriptions(client, subs) ==
  Gate("addSubscriptions", [NoArgs EXCEPT !.client = client, !.subs = subs])

addSubscriptionsThen(c) ==
  /\ c \in calls /\ c.op = "addSubscriptions"
  /\ \/ /\ ~c.dead
        /\ calls' = calls \ {c}
        /\ ev' = [NewEv("settle", c.op, "ok", c)
                   EXCEPT !.n1 = AffectedSubscriptions(subscriptions, c.client.id, c.subs)]
        /\ subscriptions' = UpsertSubscriptions(subscriptions, c.client.id, c.subs)
        /\ stale' = stale \ {[client_id |-> c.client.id, topic |-> c.subs[i].topic] :
                                i \in 1 .. Len(c.subs)}
        /\ UNCHANGED <<lifeVars, retained, outgoing, nextOutId, incoming, will, enqLog,
                       matchVars, optsTtl, ttl, eventTick, cbThrows>>
     \/ Catch(c)

removeSubscriptions(client, topics) ==
  LET a == [NoArgs EXCEPT !.client = client, !.topics = topics]
  IN IF ~_ready THEN NotReady("removeSubscriptions", a)
     ELSE IF Len(topics) = 0 THEN Return("removeSubscriptions", a)
     ELSE Execute("removeSubscriptions", a)

removeSubscriptionsThen(c) ==
  /\ c \in calls /\ c.op = "removeSubscriptions"
  /\ \/ /\ ThenAffected(c, Cardinality(subscriptions)
                               - Cardinality(DeleteSubscriptions(subscriptions, c.client.id,
                                                                 c.topics)))
        /\ subscriptions' = DeleteSubscriptions(subscriptions, c.client.id, c.topics)
        /\ UNCHANGED <<retained, outgoing, nextOutId, incoming, will>>
     \/ Catch(c)

subscriptionsByClient(client) == Gate("subscriptionsByClient", OfClient(client))

subscriptionsByClientThen(c) ==
  /\ c \in calls /\ c.op = "subscriptionsByClient"
  /\ \/ /\ Then(c, "ok", SelectSubscriptionsByClient(subscriptions, c.client.id), <<>>)
        /\ UNCHANGED tables
     \/ Catch(c)

countOffline == Gate("countOffline", NoArgs)

\* Promise.all over the two count statements: the callback gets both counts
\* when both have succeeded, and the error of the first that fails
countOfflineThen(c) ==
  /\ c \in calls /\ c.op = "countOffline"
  /\ \/ \E k \in c.left :
          LET d == [c EXCEPT !.left = c.left \ {k},
                             !.n1 = IF k = 1 THEN CountSubscriptions(subscriptions) ELSE c.n1,
                             !.n2 = IF k = 2 THEN CountClients(subscriptions) ELSE c.n2]
          IN /\ ~c.dead
             /\ IF d.left = {}
                THEN /\ calls' = calls \ {c}
                     /\ ev' = [NewEv("settle", c.op, "ok", c) EXCEPT !.n1 = d.n1, !.n2 = d.n2]
                ELSE /\ calls' = (calls \ {c}) \cup {d}
                     /\ ev' = NewEv("settle", c.op, "partial", c)
             /\ UNCHANGED <<lifeVars, tables, enqLog, matchVars, ttlVars, cbThrows>>
     \/ Catch(c)

subscriptionsByTopic(pattern) ==
  Gate("subscriptionsByTopic", [NoArgs EXCEPT !.topics = <<pattern>>])

subscriptionsByTopicThen(c) ==
  /\ c \in calls /\ c.op = "subscriptionsByTopic"
  /\ \/ /\ Then(c, "ok", SelectSubscriptionsByTopic(subscriptions, c.topics[1]), <<>>)
        /\ UNCHANGED tables
     \/ Catch(c)

cleanSubscriptions(client) == Gate("cleanSubscriptions", OfClient(client))

cleanSubscriptionsThen(c) ==
  /\ c \in calls /\ c.op = "cleanSubscriptions"
  /\ \/ /\ ThenAffected(c, Cardinality(subscriptions)
                               - Cardinality(DeleteClientSubscriptions(subscriptions,
                                                                       c.client.id)))
        /\ subscriptions' = DeleteClientSubscriptions(subscriptions, c.client.id)
        /\ UNCHANGED <<retained, outgoing, nextOutId, incoming, will>>
     \/ Catch(c)

getClientList(topic) == Gate("getClientList", [NoArgs EXCEPT !.topics = <<topic>>])

getClientListThen(c) ==
  /\ c \in calls /\ c.op = "getClientList"
  /\ \/ Then(c, "ok", SelectClientList(subscriptions, c.topics[1]), <<>>) /\ UNCHANGED tables
     \/ Catch(c)

(***************************************************************************)
(* The offline delivery queue.                                             *)
(***************************************************************************)
RECURSIVE RowsInFlight(_)
RowsInFlight(cs) ==
  IF cs = {} THEN 0
  ELSE LET c == CHOOSE x \in cs : TRUE
       IN (IF c.op = "outgoingEnqueueCombi" THEN Len(c.subs) ELSE 0) + RowsInFlight(cs \ {c})

\* packet.messageId || null, packet.retain || false, packet.dup || false
outgoingEnqueueCombi(subs, packet) ==
  LET a == [NoArgs EXCEPT !.subs = subs, !.packet = packet]
  IN IF ~_ready THEN NotReady("outgoingEnqueueCombi", a)
     ELSE IF Len(subs) = 0 THEN Return("outgoingEnqueueCombi", a)
     ELSE /\ (nextOutId - 1) + RowsInFlight(calls) + Len(subs) <= MaxQueue
          /\ Execute("outgoingEnqueueCombi", a)

outgoingEnqueueCombiThen(c) ==
  /\ c \in calls /\ c.op = "outgoingEnqueueCombi"
  /\ \/ /\ ~c.dead
        /\ calls' = calls \ {c}
        /\ ev' = NewEv("settle", c.op, "ok", c)
        /\ outgoing' = InsertOutgoing(outgoing, nextOutId, c.subs, c.packet)
        /\ nextOutId' = nextOutId + Len(c.subs)
        /\ enqLog' = enqLog \o [i \in 1 .. Len(c.subs) |->
                                  [id |-> nextOutId + i - 1, client_id |-> c.subs[i].clientId,
                                   payload |-> c.packet.payload]]
        /\ UNCHANGED <<lifeVars, subscriptions, retained, incoming, will, matchVars, ttlVars,
                       cbThrows>>
     \/ Catch(c)

outgoingEnqueue(sub, packet) == outgoingEnqueueCombi(<<sub>>, packet)

outgoingUpdate(client, packet) == Gate("outgoingUpdate", OfBoth(client, packet))

outgoingUpdateThen(c) ==
  /\ c \in calls /\ c.op = "outgoingUpdate"
  /\ \/ /\ ThenAffected(c, Cardinality(outgoing \ UpdateOutgoing(outgoing, c.client.id,
                                                                   c.packet)))
        /\ outgoing' = UpdateOutgoing(outgoing, c.client.id, c.packet)
        /\ UNCHANGED <<subscriptions, retained, nextOutId, incoming, will>>
     \/ Catch(c)

outgoingClearMessageId(client, packet) ==
  Gate("outgoingClearMessageId", OfBoth(client, packet))

outgoingClearMessageIdThen(c) ==
  /\ c \in calls /\ c.op = "outgoingClearMessageId"
  /\ \/ /\ ThenAffected(c, Cardinality(outgoing)
                               - Cardinality(DeleteOutgoing(outgoing, c.client.id,
                                                            c.packet.messageId)))
        /\ outgoing' = DeleteOutgoing(outgoing, c.client.id, c.packet.messageId)
        /\ UNCHANGED <<subscriptions, retained, nextOutId, incoming, will>>
     \/ Catch(c)

outgoingStream(client) == Gate("outgoingStream", OfClient(client))

outgoingStreamThen(c) ==
  /\ c \in calls /\ c.op = "outgoingStream"
  /\ \/ Then(c, "ok", {}, SelectOutgoing(outgoing, c.client.id)) /\ UNCHANGED tables
     \/ Catch(c)

(***************************************************************************)
(* The incoming (QoS 2) store.                                             *)
(***************************************************************************)
incomingStorePacket(client, packet) == Gate("incomingStorePacket", OfBoth(client, packet))

\* the statement's affectedRows, which the callback does not get: 1 for a new
\* row, 2 for a row updated, 0 for a row that already held these values
incomingStorePacketThen(c) ==
  /\ c \in calls /\ c.op = "incomingStorePacket"
  /\ \/ /\ ~c.dead
        /\ calls' = calls \ {c}
        /\ ev' = [NewEv("settle", c.op, "ok", c) EXCEPT
                    !.n1 = IF IncomingRow(c.client.id, c.packet) \in incoming THEN 0
                           ELSE IF SelectIncoming(incoming, c.client.id, c.packet.messageId) = {}
                           THEN 1 ELSE 2]
        /\ UNCHANGED <<lifeVars, enqLog, matchVars, ttlVars, cbThrows>>
        /\ incoming' = UpsertIncoming(incoming, c.client.id, c.packet)
        /\ UNCHANGED <<subscriptions, retained, outgoing, nextOutId, will>>
     \/ Catch(c)

incomingGetPacket(client, packet) == Gate("incomingGetPacket", OfBoth(client, packet))

\* rows.length === 0: cb(new Error('Packet not found')); else cb(null, rows[0] as a packet)
incomingGetPacketThen(c) ==
  /\ c \in calls /\ c.op = "incomingGetPacket"
  /\ \/ LET rows == SelectIncoming(incoming, c.client.id, c.packet.messageId)
        IN /\ IF rows = {} THEN Then(c, "notFound", {}, <<>>)
              ELSE \E row \in rows : Then(c, "ok", {IncomingPacket(row)}, <<>>)
           /\ UNCHANGED tables
     \/ Catch(c)

incomingDelPacket(client, packet) == Gate("incomingDelPacket", OfBoth(client, packet))

incomingDelPacketThen(c) ==
  /\ c \in calls /\ c.op = "incomingDelPacket"
  /\ \/ /\ ThenAffected(c, Cardinality(incoming)
                               - Cardinality(DeleteIncoming(incoming, c.client.id,
                                                            c.packet.messageId)))
        /\ incoming' = DeleteIncoming(incoming, c.client.id, c.packet.messageId)
        /\ UNCHANGED <<subscriptions, retained, outgoing, nextOutId, will>>
     \/ Catch(c)

(***************************************************************************)
(* The will store.                                                         *)
(***************************************************************************)
putWill(client, packet) == Gate("putWill", OfBoth(client, packet))

putWillThen(c) ==
  /\ c \in calls /\ c.op = "putWill"
  /\ \/ /\ ThenAffected(c, IF WillRow(c.client, c.packet) \in will THEN 0
                               ELSE IF SelectWill(will, c.client.id) = {} THEN 1 ELSE 2)
        /\ will' = UpsertWill(will, c.client, c.packet)
        /\ UNCHANGED <<subscriptions, retained, outgoing, nextOutId, incoming>>
     \/ Catch(c)

getWill(client) == Gate("getWill", OfClient(client))

\* rows.length === 0: cb(null, null); else cb(null, {topic, payload, qos, retain})
getWillThen(c) ==
  /\ c \in calls /\ c.op = "getWill"
  /\ \/ LET rows == SelectWill(will, c.client.id)
        IN /\ IF rows = {} THEN Then(c, "null", {}, <<>>)
              ELSE \E row \in rows :
                     Then(c, "ok", {[topic |-> row.topic, payload |-> row.payload,
                                     qos |-> row.qos, retain |-> row.retain_flag]}, <<>>)
           /\ UNCHANGED tables
     \/ Catch(c)

delWill(client) == Gate("delWill", OfClient(client))

delWillThen(c) ==
  /\ c \in calls /\ c.op = "delWill"
  /\ \/ /\ ThenAffected(c, Cardinality(SelectWill(will, c.client.id)))
        /\ will' = DeleteWill(will, c.client.id)
        /\ UNCHANGED <<subscriptions, retained, outgoing, nextOutId, incoming>>
     \/ Catch(c)

\* brokerIds = Object.keys(brokers); an empty list ends the stream at once
streamWill(brokers) ==
  LET a == [NoArgs EXCEPT !.brokers = brokers]
  IN IF ~_ready THEN NotReady("streamWill", a)
     ELSE IF brokers = {} THEN Return("streamWill", a)
     ELSE Execute("streamWill", a)

streamWillThen(c) ==
  /\ c \in calls /\ c.op = "streamWill"
  /\ \/ /\ Then(c, "ok", {WillPacket(r) : r \in SelectWillByBrokers(will, c.brokers)}, <<>>)
        /\ UNCHANGED tables
     \/ Catch(c)

(***************************************************************************)
(* The whole instance: every operation, over one client and one packet.    *)
(* The caller works with one store at a time: while the instance is ready, *)
(* it calls an operation of a store only when the relations of the other   *)
(* stores are empty and none of their statements is in flight.             *)
(***************************************************************************)
TopicA == <<"a">>
ClientOne == [id |-> "c1", broker |-> "b1"]
PacketOne == [topic |-> TopicA, payload |-> "p1", qos |-> 1, messageId |-> 1,
              retain |-> FALSE, dup |-> FALSE]
SubOne == [clientId |-> "c1", topic |-> TopicA, qos |-> 1]

StoreOf(op) ==
  CASE op \in {"storeRetained", "createRetainedStreamCombi"} -> "retained"
    [] op \in {"addSubscriptions", "removeSubscriptions", "subscriptionsByClient",
               "countOffline", "subscriptionsByTopic", "cleanSubscriptions",
               "getClientList"} -> "subscriptions"
    [] op \in {"outgoingEnqueueCombi", "outgoingUpdate", "outgoingClearMessageId",
               "outgoingStream"} -> "outgoing"
    [] op \in {"incomingStorePacket", "incomingGetPacket", "incomingDelPacket"} -> "incoming"
    [] OTHER -> "will"

StoresInUse ==
  {StoreOf(c.op) : c \in calls}
    \cup (IF retained = {} THEN {} ELSE {"retained"})
    \cup (IF subscriptions = {} THEN {} ELSE {"subscriptions"})
    \cup (IF outgoing = {} THEN {} ELSE {"outgoing"})
    \cup (IF incoming = {} THEN {} ELSE {"incoming"})
    \cup (IF will = {} THEN {} ELSE {"will"})

Using(store) == ~_ready \/ StoresInUse \subseteq {store}

Call ==
  \/ Using("retained") /\ storeRetained(PacketOne)
  \/ Using("retained") /\ createRetainedStreamCombi(<<TopicA>>)
  \/ Using("subscriptions") /\ addSubscriptions(ClientOne, <<SubOne>>)
  \/ Using("subscriptions") /\ \E topics \in {<<>>, <<TopicA>>} : removeSubscriptions(ClientOne, topics)
  \/ Using("subscriptions") /\ subscriptionsByClient(ClientOne)
  \/ Using("subscriptions") /\ countOffline
  \/ Using("subscriptions") /\ subscriptionsByTopic(TopicA)
  \/ Using("subscriptions") /\ cleanSubscriptions(ClientOne)
  \/ Using("subscriptions") /\ getClientList(TopicA)
  \/ Using("outgoing") /\ \E subs \in {<<>>, <<SubOne>>} : outgoingEnqueueCombi(subs, PacketOne)
  \/ Using("outgoing") /\ outgoingUpdate(ClientOne, PacketOne)
  \/ Using("outgoing") /\ outgoingClearMessageId(ClientOne, PacketOne)
  \/ Using("outgoing") /\ outgoingStream(ClientOne)
  \/ Using("incoming") /\ incomingStorePacket(ClientOne, PacketOne)
  \/ Using("incoming") /\ incomingGetPacket(ClientOne, PacketOne)
  \/ Using("incoming") /\ incomingDelPacket(ClientOne, PacketOne)
  \/ Using("will") /\ putWill(ClientOne, PacketOne)
  \/ Using("will") /\ getWill(ClientOne)
  \/ Using("will") /\ delWill(ClientOne)
  \/ Using("will") /\ \E brokers \in {{}, {"b1"}} : streamWill(brokers)

Settle ==
  \E c \in calls :
    \/ storeRetainedThen(c)
    \/ createRetainedStreamCombiThen(c)
    \/ addSubscriptionsThen(c)
    \/ removeSubscriptionsThen(c)
    \/ subscriptionsByClientThen(c)
    \/ countOfflineThen(c)
    \/ subscriptionsByTopicThen(c)
    \/ cleanSubscriptionsThen(c)
    \/ getClientListThen(c)
    \/ outgoingEnqueueCombiThen(c)
    \/ outgoingUpdateThen(c)
    \/ outgoingClearMessageIdThen(c)
    \/ outgoingStreamThen(c)
    \/ incomingStorePacketThen(c)
    \/ incomingGetPacketThen(c)
    \/ incomingDelPacketThen(c)
    \/ putWillThen(c)
    \/ getWillThen(c)
    \/ delWillThen(c)
    \/ streamWillThen(c)

Lifecycle == SetupAwaited \/ SetupThrows \/ destroy \/ destroyThen

\* at most n calls await their statement
Pending(n) == Cardinality(calls') <= n

Next == Lifecycle \/ (Call /\ Pending(MaxOutstanding)) \/ Settle

Spec == Init /\ [][Next]_vars

(***************************************************************************)
(* The topic matcher alone: a filter and a stored topic, each a list of    *)
(* levels, are drawn; the filter is translated and matched against the     *)
(* topic as the two statements with a REGEXP predicate do, over a relation *)
(* that holds the one topic.                                               *)
(***************************************************************************)
FilterLevels == {<<>>, <<"a">>, <<"+">>, <<"#">>}
TopicLevels == {<<>>, <<"a">>, <<"a", "b">>}

LevelLists(levels, n) == UNION {[1 .. k -> levels] : k \in 1 .. n}

InitMatcher ==
  /\ InitInstance /\ ttlSubscriptions = 0 /\ pool = "open"
  /\ InitStore /\ CallbacksReturn
  /\ mFilter \in {f \in LevelLists(FilterLevels, MaxFilterLevels) : Join(f) # <<>>}
  /\ mTopic \in {t \in LevelLists(TopicLevels, MaxTopicLevels) : Join(t) # <<>>}
  /\ mPc = "input"
  /\ mResult = [retained |-> FALSE, subscriptions |-> FALSE]

Match ==
  /\ mPc = "input" /\ mPc' = "matched"
  /\ mResult' =
       [retained |->
          SelectRetained({[topic |-> Join(mTopic), payload |-> "p1", qos |-> 1]},
                         <<Join(mFilter)>>) # {},
        subscriptions |->
          SelectSubscriptionsByTopic({[client_id |-> "c1", topic |-> Join(mTopic), qos |-> 1]},
                                     Join(mFilter)) # {}]
  /\ UNCHANGED <<lifeVars, tables, calls, enqLog, ev, mFilter, mTopic, ttlVars, cbThrows>>

NextMatcher == Match

SpecMatcher == InitMatcher /\ [][NextMatcher]_vars

(***************************************************************************)
(* The stores one at a time, over richer inputs.  The pool is created and  *)
(* no subscription TTL is configured.                                      *)
(***************************************************************************)
InitOpen == Init /\ ttlSubscriptions = 0 /\ pool = "open"

TopicDot == <<".">>
ClientTwo == [id |-> "c2", broker |-> "b2"]

\* the retained store
RetainedPackets ==
  {[PacketOne EXCEPT !.topic = TopicA, !.payload = "p1", !.qos = 0],
   [PacketOne EXCEPT !.topic = TopicA, !.payload = "p2", !.qos = 1],
   [PacketOne EXCEPT !.topic = TopicDot, !.payload = "p1", !.qos = 0]}

CallRetained ==
  \/ \E packet \in RetainedPackets : storeRetained(packet)
  \/ \E pattern \in {TopicA, TopicDot} : createRetainedStream(pattern)

SettleRetained ==
  \E c \in calls : storeRetainedThen(c) \/ createRetainedStreamCombiThen(c)

NextRetained == Lifecycle \/ (CallRetained /\ Pending(MaxInflight)) \/ SettleRetained

SpecRetained == InitOpen /\ [][NextRetained]_vars

\* subscriptions looked up by topic
CallByTopic ==
  \/ \E client \in {ClientOne, ClientTwo} : \E topic \in {TopicA, TopicDot} :
       addSubscriptions(client, <<[clientId |-> client.id, topic |-> topic, qos |-> 1]>>)
  \/ \E topic \in {TopicA, TopicDot} : subscriptionsByTopic(topic)

SettleByTopic ==
  \E c \in calls : addSubscriptionsThen(c) \/ subscriptionsByTopicThen(c)

NextByTopic == Lifecycle \/ (CallByTopic /\ Pending(MaxInflight)) \/ SettleByTopic

SpecByTopic == InitOpen /\ [][NextByTopic]_vars

\* the incoming store
IncomingCalls ==
  {<<ClientOne, [PacketOne EXCEPT !.messageId = 1, !.payload = "p1", !.qos = 2]>>,
   <<ClientOne, [PacketOne EXCEPT !.messageId = 1, !.payload = "p2", !.qos = 2]>>,
   <<ClientOne, [PacketOne EXCEPT !.messageId = 2, !.payload = "p1", !.qos = 2]>>,
   <<ClientTwo, [PacketOne EXCEPT !.messageId = 1, !.payload = "p1", !.qos = 2]>>}

\* incomingGetPacket and incomingDelPacket read only packet.messageId
IncomingKeys ==
  {<<a[1], [NoPacket EXCEPT !.messageId = a[2].messageId]>> : a \in IncomingCalls}

CallIncoming ==
  \/ \E a \in IncomingCalls : incomingStorePacket(a[1], a[2])
  \/ \E a \in IncomingKeys : incomingGetPacket(a[1], a[2])
  \/ \E a \in IncomingKeys : incomingDelPacket(a[1], a[2])

SettleIncoming ==
  \E c \in calls :
    incomingStorePacketThen(c) \/ incomingGetPacketThen(c) \/ incomingDelPacketThen(c)

NextIncoming == Lifecycle \/ (CallIncoming /\ Pending(MaxInflight)) \/ SettleIncoming

SpecIncoming == InitOpen /\ [][NextIncoming]_vars

\* the offline delivery queue
QueuePackets ==
  {[PacketOne EXCEPT !.payload = "p1", !.messageId = NullId],
   [PacketOne EXCEPT !.payload = "p2", !.messageId = NullId]}

SubTwo == [clientId |-> "c2", topic |-> TopicA, qos |-> 1]

CallQueue ==
  \/ \E subs \in {<<>>, <<SubOne, SubTwo>>, <<SubTwo, SubOne>>} : \E packet \in QueuePackets :
       outgoingEnqueueCombi(subs, packet)
  \/ \E packet \in QueuePackets : outgoingEnqueue(SubOne, packet)
  \/ \E client \in {ClientOne, ClientTwo} : outgoingStream(client)

SettleQueue ==
  \E c \in calls : outgoingEnqueueCombiThen(c) \/ outgoingStreamThen(c)

NextQueue == Lifecycle \/ (CallQueue /\ Pending(MaxInflight)) \/ SettleQueue

SpecQueue == InitOpen /\ [][NextQueue]_vars

\* the subscriptions of a client
TopicPlus == Join(<<<<"s">>, <<"+">>, <<"t">>>>)

Sub(topic, qos) == [clientId |-> "", topic |-> topic, qos |-> qos]

SubLists ==
  {<<Sub(TopicA, 0)>>, <<Sub(TopicA, 1)>>, <<Sub(TopicPlus, 1)>>,
   <<Sub(TopicA, 0), Sub(TopicPlus, 1)>>}

CallSubs ==
  \/ \E subs \in SubLists : addSubscriptions(ClientOne, subs)
  \/ addSubscriptions(ClientTwo, <<Sub(TopicA, 1)>>)
  \/ \E topics \in {<<>>, <<TopicA>>, <<TopicPlus>>} : removeSubscriptions(ClientOne, topics)
  \/ \E client \in {ClientOne, ClientTwo} : subscriptionsByClient(client)

SettleSubs ==
  \E c \in calls :
    addSubscriptionsThen(c) \/ removeSubscriptionsThen(c) \/ subscriptionsByClientThen(c)

NextSubs == Lifecycle \/ (CallSubs /\ Pending(MaxInflight)) \/ SettleSubs

SpecSubs == InitOpen /\ [][NextSubs]_vars

\* a client's session ends while the other relations hold rows
CallClean ==
  \/ \E client \in {ClientOne, ClientTwo} : addSubscriptions(client, <<Sub(TopicA, 1)>>)
  \/ \E client \in {ClientOne, ClientTwo} : cleanSubscriptions(client)
  \/ storeRetained(PacketOne)
  \/ outgoingEnqueue(SubOne, PacketOne)
  \/ incomingStorePacket(ClientOne, PacketOne)
  \/ putWill(ClientOne, PacketOne)

SettleClean ==
  \E c \in calls :
    \/ addSubscriptionsThen(c) \/ cleanSubscriptionsThen(c) \/ storeRetainedThen(c)
    \/ outgoingEnqueueCombiThen(c) \/ incomingStorePacketThen(c) \/ putWillThen(c)

NextClean == Lifecycle \/ (CallClean /\ Pending(MaxOutstanding)) \/ SettleClean

SpecClean == InitOpen /\ [][NextClean]_vars

\* counting with no concurrent writer: the caller does not write while a
\* count is pending and does not count while a write is pending
Writing == \E c \in calls : c.op \in {"addSubscriptions", "cleanSubscriptions"}

Counting == \E c \in calls : c.op = "countOffline"

CallCount ==
  \/ /\ ~Counting
     /\ \E client \in {ClientOne, ClientTwo} :
          \E subs \in {<<Sub(TopicA, 1)>>, <<Sub(TopicPlus, 1)>>,
                       <<Sub(TopicA, 1), Sub(TopicPlus, 1)>>} :
            addSubscriptions(client, subs)
  \/ ~Counting /\ cleanSubscriptions(ClientTwo)
  \/ ~Writing /\ countOffline

SettleCount ==
  \E c \in calls : addSubscriptionsThen(c) \/ cleanSubscriptionsThen(c) \/ countOfflineThen(c)

NextCount == Lifecycle \/ (CallCount /\ Pending(MaxInflight)) \/ SettleCount

SpecCount == InitOpen /\ [][NextCount]_vars

\* the will store: c1 connects through broker b1, through broker b2 or with
\* no broker recorded, c2 through b2
WillOne == [PacketOne EXCEPT !.payload = "p1", !.qos = 1, !.retain = FALSE]
WillTwo == [PacketOne EXCEPT !.payload = "p2", !.qos = 2, !.retain = TRUE]

WillCalls ==
  {<<ClientOne, WillOne>>, <<ClientOne, WillTwo>>,
   <<[ClientOne EXCEPT !.broker = "b2"], WillTwo>>,
   <<[ClientOne EXCEPT !.broker = NoBroker], WillOne>>,
   <<ClientTwo, WillOne>>}

CallWill ==
  \/ \E a \in WillCalls : putWill(a[1], a[2])
  \/ \E client \in {ClientOne, ClientTwo} : getWill(client)
  \/ \E client \in {ClientOne, ClientTwo} : delWill(client)
  \/ \E brokers \in {{}, {"b1"}, {"b1", "b2"}} : streamWill(brokers)

SettleWill ==
  \E c \in calls : putWillThen(c) \/ getWillThen(c) \/ delWillThen(c) \/ streamWillThen(c)

NextWill == Lifecycle \/ (CallWill /\ Pending(MaxInflight)) \/ SettleWill

SpecWill == InitOpen /\ [][NextWill]_vars

\* the four operations that return a stream, over relations that hold rows,
\* the caller working with one store at a time as in Spec.  A statement that
\* was issued is answered or fails: its promise settles.
StreamOps == {"createRetainedStreamCombi", "outgoingStream", "streamWill", "getClientList"}

CallStreams ==
  \/ Using("retained") /\ storeRetained(PacketOne)
  \/ Using("subscriptions") /\ addSubscriptions(ClientOne, <<Sub(TopicA, 1)>>)
  \/ Using("outgoing") /\ outgoingEnqueue(SubOne, PacketOne)
  \/ Using("will") /\ putWill(ClientOne, WillOne)
  \/ Using("retained") /\ createRetainedStreamCombi(<<TopicA>>)
  \/ Using("outgoing") /\ outgoingStream(ClientOne)
  \/ Using("will") /\ \E brokers \in {{}, {"b1"}} : streamWill(brokers)
  \/ Using("subscriptions") /\ getClientList(TopicA)

SettleStream(c) ==
  \/ createRetainedStreamCombiThen(c) \/ outgoingStreamThen(c)
  \/ streamWillThen(c) \/ getClientListThen(c)

SettleStreams ==
  \E c \in calls :
    \/ storeRetainedThen(c) \/ addSubscriptionsThen(c)
    \/ outgoingEnqueueCombiThen(c) \/ putWillThen(c)
    \/ SettleStream(c)

SettleStreamOf(i) == \E c \in calls : c.id = i /\ SettleStream(c)

NextStreams == Lifecycle \/ (CallStreams /\ Pending(MaxOutstanding)) \/ SettleStreams

SpecStreams ==
  /\ InitOpen /\ [][NextStreams]_vars
  /\ \A i \in 1 .. MaxOutstanding : WF_vars(SettleStreamOf(i))

\* delivery from the queue: a queued packet gets its message id when it is
\* sent (outgoingUpdate) and is cleared when it is acknowledged
QueuedOne == [PacketOne EXCEPT !.payload = "p1", !.messageId = NullId]
QueuedTwo == [PacketOne EXCEPT !.payload = "p2", !.messageId = 2]
SentOne == [QueuedOne EXCEPT !.messageId = 1, !.dup = TRUE]

CallDelivery ==
  \/ outgoingEnqueueCombi(<<SubOne, SubTwo>>, QueuedOne)
  \/ \E packet \in {QueuedOne, QueuedTwo} : outgoingEnqueue(SubOne, packet)
  \/ \E client \in {ClientOne, ClientTwo} : outgoingUpdate(client, SentOne)
  \/ \E client \in {ClientOne, ClientTwo} : outgoingClearMessageId(client, SentOne)
  \/ \E client \in {ClientOne, ClientTwo} : outgoingStream(client)

SettleDelivery ==
  \E c \in calls :
    \/ outgoingEnqueueCombiThen(c) \/ outgoingUpdateThen(c)
    \/ outgoingClearMessageIdThen(c) \/ outgoingStreamThen(c)

NextDelivery == Lifecycle \/ (CallDelivery /\ Pending(MaxOutstanding)) \/ SettleDelivery

SpecDelivery == InitOpen /\ [][NextDelivery]_vars

C2_ClosedIsTerminal == _closed => ~_ready

(***************************************************************************)
(* C3: the instance is ready only after the pool was created and every     *)
(* provisioning statement succeeded (the five CREATE TABLE statements and, *)
(* with ttl.subscriptions > 0, the CREATE EVENT statement); after a        *)
(* failure of the provisioning it is not ready.                            *)
(***************************************************************************)
C3_ReadyOnlyAfterProvisioning ==
  /\ _ready => /\ pool # "null"
               /\ \A i \in 1 .. Len(Tables) : Tables[i] \in schema
               /\ ttlSubscriptions > 0 => "aedes_cleanup_subscriptions" \in schema
  /\ setupPc = "failed" => ~_ready

\* ready with a subscription TTL: the event statement was the last one awaited
C3_Witness ==
  _ready /\ ttlSubscriptions > 0 /\ "aedes_cleanup_subscriptions" \in schema

(***************************************************************************)
(* C4: a second call of destroy reports success, does not end the pool     *)
(* again (pool.end is invoked at most once) and leaves the instance closed *)
(* and not ready.                                                          *)
(***************************************************************************)
C4_DestroyIdempotent ==
  [][(_closed /\ ev'.kind = "call" /\ ev'.op = "destroy")
       => (ev'.outcome = "ok" /\ poolEndCalls' = poolEndCalls /\ poolEndCalls' <= 1
           /\ _closed' /\ ~_ready')]_vars

(***************************************************************************)
(* Filters by levels.                                                      *)
(***************************************************************************)
Wildcards == {<<"+">>, <<"#">>}

\* level by level: a literal level is equal, a '+' level is one non-empty level
LevelsMatch(filter, topic) ==
  /\ Len(topic) >= Len(filter)
  /\ \A i \in 1 .. Len(filter) :
       IF filter[i] = <<"+">> THEN topic[i] # <<>> ELSE topic[i] = filter[i]

EndsInHash(filter) ==
  /\ Len(filter) >= 2 /\ filter[Len(filter)] = <<"#">>
  /\ \A i \in 1 .. (Len(filter) - 1) : filter[i] # <<"#">>

Prefix(filter) == SubSeq(filter, 1, Len(filter) - 1)

(***************************************************************************)
(* C8: a filter ending in '#' matches its prefix and the prefix followed   *)
(* by further levels: zero or more trailing levels.                        *)
(***************************************************************************)
C8_MultiLevelZeroOrMore ==
  (mPc = "matched" /\ EndsInHash(mFilter) /\ LevelsMatch(Prefix(mFilter), mTopic))
    => (mResult.retained /\ mResult.subscriptions)

(***************************************************************************)
(* C9: '+' matches exactly one level and never crosses a separator: a      *)
(* filter of literal levels and '+' levels matches exactly the topics with *)
(* as many levels, equal at the literal levels and not empty at the '+'    *)
(* levels; followed by a final '#', it matches only topics whose leading   *)
(* levels are matched so.                                                  *)
(***************************************************************************)
C9_SingleLevel ==
  (mPc = "matched" /\ \E i \in 1 .. Len(mFilter) : mFilter[i] = <<"+">>)
    => /\ mResult.subscriptions = mResult.retained
       /\ (\A i \in 1 .. Len(mFilter) : mFilter[i] # <<"#">>)
            => (mResult.retained <=> (Len(mTopic) = Len(mFilter) /\ LevelsMatch(mFilter, mTopic)))
       /\ EndsInHash(mFilter)
            => (mResult.retained => LevelsMatch(Prefix(mFilter), mTopic))

\* a/+/a against a/ab/a: the '+' level takes the two characters of one level
C9_Witness ==
  /\ mPc = "matched" /\ mResult.retained
  /\ mFilter = <<<<"a">>, <<"+">>, <<"a">>>>
  /\ mTopic = <<<<"a">>, <<"a", "b">>, <<"a">>>>

WildcardFree(topic) == \A i \in 1 .. Len(topic) : topic[i] \notin {"+", "#"}

Settled(op) == ev.kind = "settle" /\ ev.op = op /\ ev.outcome = "ok"

(***************************************************************************)
(* C5: the retained relation holds at most one row per topic; when         *)
(* storeRetained(T, P, Q) has completed the relation holds (T, P, Q); and  *)
(* createRetainedStreamCombi([T]) for a wildcard-free stored T yields      *)
(* exactly one result, the row stored for T.                               *)
(***************************************************************************)
C5_RetainedRoundTrip ==
  /\ \A r1, r2 \in retained : r1.topic = r2.topic => r1 = r2
  /\ Settled("storeRetained") => RetainedRow(ev.packet) \in retained
  /\ (/\ Settled("createRetainedStreamCombi")
      /\ WildcardFree(ev.topics[1])
      /\ \E r \in retained : r.topic = ev.topics[1])
       => /\ Cardinality(ev.rows) = 1
          /\ ev.rows = {r \in retained : r.topic = ev.topics[1]}

(***************************************************************************)
(* C10: for a topic T without wildcard characters, subscriptionsByTopic(T) *)
(* returns exactly the stored subscriptions whose topic is T.              *)
(***************************************************************************)
C10_ByTopicExact ==
  (Settled("subscriptionsByTopic") /\ WildcardFree(ev.topics[1]))
    => ev.rows = {[clientId |-> r.client_id, topic |-> r.topic, qos |-> r.qos] :
                    r \in {x \in subscriptions : x.topic = ev.topics[1]}}

(***************************************************************************)
(* C6: there is never more than one incoming row per (clientId,            *)
(* messageId); when incomingStorePacket has completed, also for content    *)
(* stored before, exactly one row holds the key and it is the packet; and  *)
(* incomingGetPacket returns the messageId, topic, payload and qos of the  *)
(* row of the key.                                                         *)
(***************************************************************************)
C6_IncomingOneRow ==
  /\ \A r1, r2 \in incoming :
       (r1.client_id = r2.client_id /\ r1.message_id = r2.message_id) => r1 = r2
  /\ Settled("incomingStorePacket")
       => SelectIncoming(incoming, ev.client.id, ev.packet.messageId)
            = {IncomingRow(ev.client.id, ev.packet)}
  /\ Settled("incomingGetPacket")
       => /\ Cardinality(ev.rows) = 1
          /\ \E r \in incoming :
               /\ r.client_id = ev.client.id /\ r.message_id = ev.packet.messageId
               /\ ev.rows = {[messageId |-> r.message_id, topic |-> r.topic,
                              payload |-> r.payload, qos |-> r.qos]}

\* the packet was stored again with the content its row already held
C6_Witness ==
  /\ Settled("incomingStorePacket") /\ ev.n1 = 0
  /\ Cardinality(SelectIncoming(incoming, ev.client.id, ev.packet.messageId)) = 1

(***************************************************************************)
(* C7: outgoingStream(client) yields the queued packets of the client in   *)
(* the order they were inserted: a packet enqueued after another comes     *)
(* after it.                                                               *)
(***************************************************************************)
Queued(clientId) ==
  SelectSeq(enqLog, LAMBDA e : e.client_id = clientId /\ \E r \in outgoing : r.id = e.id)

RowOf(id) == CHOOSE r \in outgoing : r.id = id

C7_QueueOrder ==
  Settled("outgoingStream")
    => LET q == Queued(ev.client.id)
       IN /\ Len(ev.seq) = Len(q)
          /\ \A i \in 1 .. Len(q) :
               /\ ev.seq[i] = OutgoingPacket(RowOf(q[i].id))
               /\ ev.seq[i].payload = q[i].payload

\* p1 was inserted for the client before p2 and the stream yields p1, then p2
C7_Witness ==
  /\ Settled("outgoingStream") /\ Len(ev.seq) = 2
  /\ ev.seq[1].payload = "p1" /\ ev.seq[2].payload = "p2"
  /\ Len(Queued(ev.client.id)) = 2 /\ Queued(ev.client.id)[1].payload = "p1"

(***************************************************************************)
(* C11: there is at most one subscription row per (clientId, topic); when  *)
(* addSubscriptions has completed, each listed topic has one row of the    *)
(* client with the qos listed last for it, a pair that existed has its qos *)
(* replaced and gets no second row, and no other row has changed; and      *)
(* subscriptionsByClient returns exactly the client's (topic, qos) pairs.  *)
(***************************************************************************)
Completes(op) == ev'.kind = "settle" /\ ev'.op = op /\ ev'.outcome = "ok"

ListedTopics(subs) == {subs[i].topic : i \in 1 .. Len(subs)}

LastQos(subs, topic) ==
  LET last == CHOOSE i \in 1 .. Len(subs) :
                /\ subs[i].topic = topic
                /\ \A j \in (i + 1) .. Len(subs) : subs[j].topic # topic
  IN subs[last].qos

C11_SubscriptionUpsert ==
  [][/\ \A r1, r2 \in subscriptions' :
          (r1.client_id = r2.client_id /\ r1.topic = r2.topic) => r1 = r2
     /\ Completes("addSubscriptions") =>
          LET cid == ev'.client.id
              listed == ListedTopics(ev'.subs)
          IN /\ \A t \in listed :
                  [client_id |-> cid, topic |-> t, qos |-> LastQos(ev'.subs, t)]
                    \in subscriptions'
             /\ {r \in subscriptions' : ~(r.client_id = cid /\ r.topic \in listed)}
                  = {r \in subscriptions : ~(r.client_id = cid /\ r.topic \in listed)}
             /\ Cardinality(subscriptions')
                  = Cardinality(subscriptions)
                    + Cardinality({t \in listed :
                                     ~\E r \in subscriptions : r.client_id = cid /\ r.topic = t})
     /\ Completes("subscriptionsByClient") =>
          ev'.rows = {[topic |-> r.topic, qos |-> r.qos] :
                        r \in {x \in subscriptions : x.client_id = ev'.client.id}}]_vars

\* an existing pair was added again with another qos: the row holds the new
\* qos and the client has no second row for the topic
C11_Witness ==
  /\ Settled("addSubscriptions") /\ ev.subs = <<Sub(TopicA, 1)>> /\ ev.n1 = 2
  /\ {r \in subscriptions : r.client_id = ev.client.id /\ r.topic = TopicA}
       = {[client_id |-> ev.client.id, topic |-> TopicA, qos |-> 1]}

(***************************************************************************)
(* C12: when removeSubscriptions has completed, the client's rows whose    *)
(* topic is literally in the list are gone (a filter with a wildcard is    *)
(* removed as the string it is), every other row is as before; with an     *)
(* empty list it succeeds at once, issues no statement and changes nothing.*)
(***************************************************************************)
C12_RemoveExactly ==
  [][/\ Completes("removeSubscriptions") =>
          LET cid == ev'.client.id
              listed == {ev'.topics[i] : i \in 1 .. Len(ev'.topics)}
          IN /\ ~\E r \in subscriptions' : r.client_id = cid /\ r.topic \in listed
             /\ \A r \in subscriptions :
                  (r.client_id # cid \/ r.topic \notin listed) => r \in subscriptions'
             /\ subscriptions' \subseteq subscriptions
             /\ <<retained, outgoing, incoming, will>>' = <<retained, outgoing, incoming, will>>
     /\ (_ready /\ ev'.kind = "call" /\ ev'.op = "removeSubscriptions" /\ ev'.topics = <<>>)
          => (ev'.outcome = "ok" /\ calls' = calls /\ tables' = tables)]_vars

\* the filter s/+/t of c1 was removed: c1 has no subscription left and the
\* subscription of c2 is still there
C12_Witness ==
  /\ Settled("removeSubscriptions") /\ ev.topics = <<TopicPlus>> /\ ev.n1 = 1
  /\ ev.client = ClientOne
  /\ SelectSubscriptionsByClient(subscriptions, "c1") = {}
  /\ SelectSubscriptionsByClient(subscriptions, "c2") # {}

\* removeSubscriptions with an empty list has returned on an instance that
\* holds subscriptions
C12_WitnessEmpty ==
  /\ ev.kind = "call" /\ ev.op = "removeSubscriptions" /\ ev.outcome = "ok"
  /\ subscriptions # {}

(***************************************************************************)
(* C13: when cleanSubscriptions has completed, the client has no           *)
(* subscription row, the rows of every other client are as before and the  *)
(* other four relations are unchanged.                                     *)
(***************************************************************************)
C13_CleanOnlyClient ==
  [][Completes("cleanSubscriptions") =>
       /\ SelectSubscriptionsByClient(subscriptions', ev'.client.id) = {}
       /\ {r \in subscriptions' : r.client_id # ev'.client.id}
            = {r \in subscriptions : r.client_id # ev'.client.id}
       /\ retained' = retained /\ outgoing' = outgoing
       /\ incoming' = incoming /\ will' = will]_vars

\* the subscription of c1 was deleted while c2 holds one and each of the other
\* relations holds a row
C13_Witness ==
  /\ Settled("cleanSubscriptions") /\ ev.client = ClientOne /\ ev.n1 = 1
  /\ SelectSubscriptionsByClient(subscriptions, "c1") = {}
  /\ SelectSubscriptionsByClient(subscriptions, "c2") # {}
  /\ retained # {} /\ outgoing # {} /\ incoming # {} /\ will # {}

(***************************************************************************)
(* C14: with no concurrent writer, countOffline returns the number of      *)
(* subscription rows and the number of distinct client ids that have a     *)
(* subscription; two clients with two subscriptions each give 4 and 2.     *)
(***************************************************************************)
C14_CountOffline ==
  Settled("countOffline")
    => /\ ev.n1 = Cardinality(subscriptions)
       /\ ev.n2 = Cardinality({cid \in {"c1", "c2"} :
                                 \E r \in subscriptions : r.client_id = cid})

C14_Witness ==
  /\ Settled("countOffline") /\ ev.n1 = 4 /\ ev.n2 = 2
  /\ \A cid \in {"c1", "c2"} :
       Cardinality(SelectSubscriptionsByClient(subscriptions, cid)) = 2

(***************************************************************************)
(* C15: incomingGetPacket, when its statement succeeds, reports 'Packet    *)
(* not found' exactly when there is no incoming row for (client.id,        *)
(* packet.messageId), as before a store and after a delete of the key;     *)
(* incomingDelPacket removes the row of its key and no other row.          *)
(***************************************************************************)
C15_NotFoundAndDelete ==
  [][/\ (ev'.kind = "settle" /\ ev'.op = "incomingGetPacket" /\ ev'.outcome # "error")
          => /\ ev'.outcome \in {"ok", "notFound"}
             /\ (ev'.outcome = "notFound")
                  <=> (SelectIncoming(incoming, ev'.client.id, ev'.packet.messageId) = {})
     /\ Completes("incomingDelPacket")
          => /\ SelectIncoming(incoming', ev'.client.id, ev'.packet.messageId) = {}
             /\ \A r \in incoming :
                  (r.client_id # ev'.client.id \/ r.message_id # ev'.packet.messageId)
                    => r \in incoming'
             /\ incoming' \subseteq incoming]_vars

\* the row of (c1, 1) was deleted: the row of c1 with another message id and
\* the row of c2 with the same message id are still there
C15_Witness ==
  /\ Settled("incomingDelPacket") /\ ev.n1 = 1
  /\ ev.client = ClientOne /\ ev.packet.messageId = 1
  /\ SelectIncoming(incoming, "c1", 1) = {}
  /\ SelectIncoming(incoming, "c1", 2) # {}
  /\ SelectIncoming(incoming, "c2", 1) # {}

\* 'Packet not found' for a key without a row, on a table that holds rows
C15_WitnessNotFound ==
  /\ ev.kind = "settle" /\ ev.op = "incomingGetPacket" /\ ev.outcome = "notFound"
  /\ incoming # {}

(***************************************************************************)
(* C16: there is at most one will row per client; when putWill has         *)
(* completed the client's row is the new will and nothing of an earlier    *)
(* will remains; getWill returns topic, payload, qos and retain of the     *)
(* client's row, and a null result without error when the client has no    *)
(* row, as after delWill; delWill leaves the wills of other clients.       *)
(***************************************************************************)
C16_WillStore ==
  [][/\ \A r1, r2 \in will' : r1.client_id = r2.client_id => r1 = r2
     /\ Completes("putWill")
          => /\ SelectWill(will', ev'.client.id)
                  = {[client_id |-> ev'.client.id, topic |-> ev'.packet.topic,
                      payload |-> ev'.packet.payload, qos |-> ev'.packet.qos,
                      retain_flag |-> ev'.packet.retain, broker_id |-> ev'.client.broker]}
             /\ {r \in will' : r.client_id # ev'.client.id}
                  = {r \in will : r.client_id # ev'.client.id}
     /\ (ev'.kind = "settle" /\ ev'.op = "getWill" /\ ev'.outcome # "error")
          => LET rows == {r \in will : r.client_id = ev'.client.id}
             IN IF rows = {}
                THEN ev'.outcome = "null" /\ ev'.rows = {}
                ELSE /\ ev'.outcome = "ok"
                     /\ ev'.rows = {[topic |-> r.topic, payload |-> r.payload, qos |-> r.qos,
                                     retain |-> r.retain_flag] : r \in rows}
     /\ Completes("delWill")
          => /\ SelectWill(will', ev'.client.id) = {}
             /\ {r \in will' : r.client_id # ev'.client.id}
                  = {r \in will : r.client_id # ev'.client.id}]_vars

\* the will of c1 was replaced by W2: its one row is W2, the will of c2 is there
C16_Witness ==
  /\ Settled("putWill") /\ ev.n1 = 2 /\ ev.client = ClientOne /\ ev.packet = WillTwo
  /\ SelectWill(will, "c1") = {WillRow(ClientOne, WillTwo)}
  /\ SelectWill(will, "c2") # {}

\* getWill has completed with null and no error, after the will was deleted or
\* before one was put, while another client has a will
C16_WitnessNull ==
  /\ ev.kind = "settle" /\ ev.op = "getWill" /\ ev.outcome = "null" /\ will # {}

(***************************************************************************)
(* C17: streamWill(brokers) yields exactly the wills whose broker id, as   *)
(* the last putWill of the client recorded it, is in the set; with an      *)
(* empty set the stream ends at once with no item and no statement.        *)
(***************************************************************************)
C17_StreamWill ==
  [][/\ Completes("streamWill")
          => ev'.rows = {[clientId |-> r.client_id, topic |-> r.topic, payload |-> r.payload,
                          qos |-> r.qos, retain |-> r.retain_flag, brokerId |-> r.broker_id] :
                           r \in {x \in will : x.broker_id \in ev'.brokers}}
     /\ Completes("putWill")
          => \A r \in will' : r.client_id = ev'.client.id => r.broker_id = ev'.client.broker
     /\ (_ready /\ ev'.kind = "call" /\ ev'.op = "streamWill" /\ ev'.brokers = {})
          => (ev'.outcome = "ok" /\ ev'.rows = {} /\ calls' = calls /\ tables' = tables)]_vars

\* the stream for {b1} has yielded the will of c1 and not the will c2 put
\* through b2
C17_Witness ==
  /\ Settled("streamWill") /\ ev.brokers = {"b1"}
  /\ {p.clientId : p \in ev.rows} = {"c1"}
  /\ \E r \in will : r.client_id = "c2" /\ r.broker_id = "b2"

\* the stream for the empty broker set has ended on an instance that holds wills
C17_WitnessEmpty ==
  /\ ev.kind = "call" /\ ev.op = "streamWill" /\ ev.outcome = "ok" /\ will # {}

(***************************************************************************)
(* C18: a stream of createRetainedStreamCombi, outgoingStream, streamWill  *)
(* or getClientList terminates once, either with the end marker after all  *)
(* matching rows or with an error and no item; a failed statement gives    *)
(* the error, never the end marker; after it terminated nothing more is    *)
(* yielded; and every stream whose statement was issued terminates.        *)
(***************************************************************************)
Matching(e) ==
  CASE e.op = "createRetainedStreamCombi" ->
         [rows |-> {r \in retained :
                      \E i \in 1 .. Len(e.topics) : Regexp(r.topic, SqlPattern(e.topics[i]))},
          seq |-> <<>>]
    [] e.op = "outgoingStream" ->
         [rows |-> {}, seq |-> SelectOutgoing(outgoing, e.client.id)]
    [] e.op = "streamWill" ->
         [rows |-> {WillPacket(r) : r \in {x \in will : x.broker_id \in e.brokers}},
          seq |-> <<>>]
    [] OTHER ->
         [rows |-> {r.client_id : r \in {x \in subscriptions : x.topic = e.topics[1]}},
          seq |-> <<>>]

StreamPending(i) == \E c \in calls : c.id = i /\ c.op \in StreamOps

C18_StreamTerminates ==
  /\ [][/\ (ev'.kind = "settle" /\ ev'.op \in StreamOps)
             => /\ \E c \in calls :
                     /\ c.op = ev'.op /\ calls' = calls \ {c}
                     /\ c.dead => ev'.outcome = "error"
                /\ ev'.outcome \in {"ok", "error"}
                /\ ev'.outcome = "error" => (ev'.rows = {} /\ ev'.seq = <<>>)
                /\ ev'.outcome = "ok"
                     => (ev'.rows = Matching(ev').rows /\ ev'.seq = Matching(ev').seq)
        /\ (ev'.kind = "call" /\ ev'.op \in StreamOps /\ ev'.outcome # "issued")
             => (calls' = calls /\ ev'.rows = {} /\ ev'.seq = <<>>)]_vars
  /\ \A i \in 1 .. MaxOutstanding : StreamPending(i) ~> ~StreamPending(i)

\* a stream has ended with the end marker after yielding rows
C18_Witness ==
  /\ ev.kind = "settle" /\ ev.op \in StreamOps /\ ev.outcome = "ok"
  /\ (ev.rows # {} \/ ev.seq # <<>>)

\* a stream has ended with the error of its statement, on relations holding rows
C18_WitnessError ==
  /\ ev.kind = "settle" /\ ev.op = "outgoingStream" /\ ev.outcome = "error"
  /\ outgoing # {}

(***************************************************************************)
(* C19: when outgoingUpdate has completed, the rows of the client with the *)
(* packet's topic and payload hold the packet's message id and dup flag    *)
(* and are otherwise as before, every other row is unchanged, no row was   *)
(* added or removed, and outgoingStream yields the packets of each client  *)
(* in the same order as before.                                            *)
(***************************************************************************)
StreamIds(tbl, clientId) ==
  LET s == SortById({r \in tbl : r.client_id = clientId})
  IN [i \in 1 .. Len(s) |-> s[i].id]

Payloads(packets) == [i \in 1 .. Len(packets) |-> packets[i].payload]

C19_UpdateFrame ==
  [][Completes("outgoingUpdate") =>
       LET Hit(r) == /\ r.client_id = ev'.client.id
                     /\ r.topic = ev'.packet.topic /\ r.payload = ev'.packet.payload
       IN /\ {r.id : r \in outgoing'} = {r.id : r \in outgoing}
          /\ Cardinality(outgoing') = Cardinality(outgoing)
          /\ \A r \in outgoing :
               IF Hit(r)
               THEN [r EXCEPT !.message_id = ev'.packet.messageId,
                              !.dup_flag = ev'.packet.dup] \in outgoing'
               ELSE r \in outgoing'
          /\ \A cid \in {"c1", "c2"} :
               /\ StreamIds(outgoing', cid) = StreamIds(outgoing, cid)
               /\ Payloads(SelectOutgoing(outgoing', cid))
                    = Payloads(SelectOutgoing(outgoing, cid))]_vars

\* the packet p1 of c1, queued behind another packet of c1, has got message id
\* 1, and the same packet queued for c2 is still without one
C19_Witness ==
  /\ Settled("outgoingUpdate") /\ ev.client = ClientOne /\ ev.n1 = 1
  /\ Len(SelectOutgoing(outgoing, "c1")) >= 2
  /\ SelectOutgoing(outgoing, "c1")[1].payload = "p2"
  /\ \E r \in outgoing : r.client_id = "c1" /\ r.payload = "p1" /\ r.message_id = 1
  /\ \E r \in outgoing : r.client_id = "c2" /\ r.payload = "p1" /\ r.message_id = NullId

(***************************************************************************)
(* C20: when outgoingClearMessageId has completed, the client has no       *)
(* queued packet with that message id; its packets with another message id *)
(* and the packets of every other client, also those with the same message *)
(* id, are still queued, and each stream yields them in unchanged order.   *)
(***************************************************************************)
C20_ClearFrame ==
  [][Completes("outgoingClearMessageId") =>
       LET Hit(r) == r.client_id = ev'.client.id /\ r.message_id = ev'.packet.messageId
       IN /\ ~\E r \in outgoing' : Hit(r)
          /\ \A r \in outgoing : ~Hit(r) => r \in outgoing'
          /\ outgoing' \subseteq outgoing
          /\ \A cid \in {"c1", "c2"} :
               SelectOutgoing(outgoing', cid)
                 = SelectSeq(SelectOutgoing(outgoing, cid),
                             LAMBDA p : cid # ev'.client.id
                                        \/ p.messageId # ev'.packet.messageId)]_vars

\* the packet of c1 with message id 1 was cleared: its packet with message id
\* 2 and the packet of c2 with message id 1 are still queued
C20_Witness ==
  /\ Settled("outgoingClearMessageId") /\ ev.client = ClientOne /\ ev.n1 = 1
  /\ ev.packet.messageId = 1
  /\ \E r \in outgoing : r.client_id = "c1" /\ r.message_id = 2
  /\ \E r \in outgoing : r.client_id = "c2" /\ r.message_id = 1

(***************************************************************************)
(* C21: when outgoingEnqueueCombi has completed, the queue has one new row *)
(* per entry of the subscriber list, each with its own id, the clientId of *)
(* its entry and the packet's topic, payload, qos, retain and dup, and     *)
(* every row that was queued before is unchanged; with an empty list it    *)
(* succeeds at once, issues no statement and changes nothing.              *)
(***************************************************************************)
C21_EnqueueAppends ==
  [][/\ Completes("outgoingEnqueueCombi") =>
          LET added == outgoing' \ outgoing
              subs == ev'.subs
          IN /\ outgoing \subseteq outgoing'
             /\ Cardinality({r.id : r \in added}) = Len(subs)
             /\ \A r \in added : \A o \in outgoing : r.id # o.id
             /\ \A cid \in {subs[i].clientId : i \in 1 .. Len(subs)} :
                  Cardinality({r.id : r \in {x \in added : x.client_id = cid}})
                    = Cardinality({i \in 1 .. Len(subs) : subs[i].clientId = cid})
             /\ \A r \in added :
                  /\ r.topic = ev'.packet.topic /\ r.payload = ev'.packet.payload
                  /\ r.qos = ev'.packet.qos /\ r.retain_flag = ev'.packet.retain
                  /\ r.dup_flag = ev'.packet.dup
                  /\ \E i \in 1 .. Len(subs) : r.client_id = subs[i].clientId
     /\ (_ready /\ ev'.kind = "call" /\ ev'.op = "outgoingEnqueueCombi" /\ ev'.subs = <<>>)
          => (ev'.outcome = "ok" /\ calls' = calls /\ tables' = tables)]_vars

\* a packet was enqueued for two subscribers behind a packet already queued
C21_Witness ==
  /\ Settled("outgoingEnqueueCombi") /\ Len(ev.subs) = 2
  /\ Cardinality(outgoing) = 3
  /\ Cardinality({r \in outgoing : r.payload = ev.packet.payload}) = 2

\* an empty subscriber list has returned on a queue that holds rows
C21_WitnessEmpty ==
  /\ ev.kind = "call" /\ ev.op = "outgoingEnqueueCombi" /\ ev.outcome = "ok"
  /\ outgoing # {}


(***************************************************************************)
(* The ttl option, from the constructor to the scheduled event.            *)
(***************************************************************************)
\* before new AedesPersistenceMySQL(opts): the caller has chosen opts.ttl
InitNew(options) ==
  /\ optsTtl \in options
  /\ ttl = [packets |-> NoPackets, subscriptions |-> Undefined]
  /\ ttlSubscriptions = 0 /\ CallbacksReturn
  /\ _ready = FALSE /\ _closed = FALSE /\ pool = "null" /\ setupPc = "new"
  /\ setupDead = FALSE /\ schema = {} /\ ending = FALSE /\ poolEndCalls = 0
  /\ InitStore /\ InitMatcherIdle

\* the constructor: this.ttl is normalised, then _setup runs up to its first await
Construct ==
  /\ setupPc = "new"
  /\ ttl' = TtlOf(optsTtl)
  /\ ttlSubscriptions' = Seconds(ttl'.subscriptions)
  /\ \/ pool' = "open" /\ setupPc' = "getConnection"
     \/ pool' = "null" /\ setupPc' = "failed"
  /\ ev' = NewEv("setup", "constructor", "ok", NoArgs)
  /\ UNCHANGED <<_ready, _closed, setupDead, schema, ending, poolEndCalls, tables, calls,
                 enqLog, matchVars, optsTtl, stale, eventTick, cbThrows>>

Constructed == setupPc # "new"

\* the table named by the statement of the event:
\* DO DELETE FROM subscriptions WHERE created_at < DATE_SUB(NOW(), INTERVAL ... SECOND)
EventTable == "subscriptions"

SubscriptionKey(row) == [client_id |-> row.client_id, topic |-> row.topic]

\* time passes: the rows the relation holds are now older than the TTL
TimePasses ==
  /\ ttlSubscriptions > 0
  /\ stale' = {SubscriptionKey(r) : r \in subscriptions}
  /\ stale' # stale
  /\ UNCHANGED <<lifeVars, tables, calls, enqLog, ev, matchVars, optsTtl, ttl, eventTick,
                 cbThrows>>

\* ON SCHEDULE EVERY 1 HOUR: the database server runs the statement of the
\* event, whatever the instance is doing.  It removes the aged rows of the
\* table it names.
CleanupEvent ==
  /\ "aedes_cleanup_subscriptions" \in schema
  /\ eventTick' = 1 - eventTick
  /\ subscriptions' = IF EventTable = Tables[1]
                      THEN {r \in subscriptions : SubscriptionKey(r) \notin stale}
                      ELSE subscriptions
  /\ UNCHANGED <<lifeVars, retained, outgoing, nextOutId, incoming, will, calls, enqLog, ev,
                 matchVars, optsTtl, ttl, stale, cbThrows>>

\* subscriptions of one client, with and without a subscription TTL
TtlSettings == {NoTtl, TtlSubscriptions(0), TtlSubscriptions(-1), TtlSubscriptions(600)}

CallTtl ==
  \/ \E topic \in {TopicA, TopicDot} : addSubscriptions(ClientOne, <<Sub(topic, 1)>>)
  \/ removeSubscriptions(ClientOne, <<TopicA>>)
  \/ cleanSubscriptions(ClientOne)
  \/ subscriptionsByClient(ClientOne)

SettleTtl ==
  \E c \in calls :
    \/ addSubscriptionsThen(c) \/ removeSubscriptionsThen(c) \/ cleanSubscriptionsThen(c)
    \/ subscriptionsByClientThen(c)

NextTtl ==
  \/ Construct
  \/ Constructed /\ (Lifecycle \/ (CallTtl /\ Pending(MaxOutstanding)) \/ SettleTtl)
  \/ TimePasses
  \/ CleanupEvent

\* the event scheduler of the database server runs an installed event again and again
SpecTtl == InitNew(TtlSettings) /\ [][NextTtl]_vars /\ WF_vars(CleanupEvent)

TtlKeys == {[client_id |-> ClientOne.id, topic |-> topic] : topic \in {TopicA, TopicDot}}

\* the row of a key is in aedes_subscriptions and older than the TTL
Aged(key) == key \in stale /\ \E r \in subscriptions : SubscriptionKey(r) = key

TtlPositive ==
  optsTtl.given /\ optsTtl.subscriptions.t = "number" /\ optsTtl.subscriptions.n > 0

\* C22: with ttl.subscriptions > 0 the provisioning installs the recurring expiry
\* task, and a subscription row written by addSubscriptions that stays older
\* than the TTL is eventually deleted by it (subscriptionsByClient no longer
\* returns it); with ttl.subscriptions absent or not positive no task is
\* installed and rows leave the relation only when removeSubscriptions or
\* cleanSubscriptions completes.
C22_SubscriptionTtl ==
  /\ [](setupPc = "done" => (("aedes_cleanup_subscriptions" \in schema) <=> TtlPositive))
  /\ [](~TtlPositive => "aedes_cleanup_subscriptions" \notin schema)
  /\ [][(~TtlPositive /\ ~(subscriptions \subseteq subscriptions'))
          => (Completes("removeSubscriptions") \/ Completes("cleanSubscriptions"))]_vars
  /\ \A key \in TtlKeys : (TtlPositive /\ Aged(key)) ~> ~Aged(key)


(***************************************************************************)
(* The constructor over the shapes of opts.ttl.                            *)
(***************************************************************************)
PacketsSettings ==
  {NoPackets, [NoPackets EXCEPT !.t = "null"], NumPackets(0), NumPackets(300)}
    \cup {PacketsObject(a, b, c, d) : a, b, c, d \in {Undefined, Num(100)}}

TtlOptions ==
  {NoTtl} \cup {[given |-> TRUE, packets |-> packets, subscriptions |-> seconds] :
                  packets \in PacketsSettings,
                  seconds \in {Undefined, Null, Num(0), Num(-1), Num(600)}}

NextOptions == Construct \/ (Constructed /\ Lifecycle)

SpecOptions == InitNew(TtlOptions) /\ [][NextOptions]_vars

\* opts.ttl || {}, as the caller sees it
GivenTtl == IF optsTtl.given THEN optsTtl ELSE NoTtl

\* what the claim says of this.ttl.packets
PacketsNormalised ==
  /\ GivenTtl.packets.t = "number" =>
       ttl.packets = PacketsObject(Num(GivenTtl.packets.n), Num(GivenTtl.packets.n),
                                   Num(GivenTtl.packets.n), Num(GivenTtl.packets.n))
  /\ GivenTtl.packets.t = "object" => ttl.packets = GivenTtl.packets
  /\ GivenTtl.packets.t = "undefined" => ttl.packets = EmptyObject

\* C23 as stated: a numeric ttl.packets n becomes {incoming: n, outgoing: n,
\* retained: n, will: n}, an object is kept as given, an absent one becomes the
\* empty object; ttl.subscriptions keeps the configured value and is null when
\* absent.
C23_TtlKeepsConfigured ==
  Constructed =>
    /\ PacketsNormalised
    /\ GivenTtl.subscriptions.t = "undefined" => ttl.subscriptions = Null
    /\ GivenTtl.subscriptions.t # "undefined" => ttl.subscriptions = GivenTtl.subscriptions

\* C23 as amended: the same for ttl.packets; ttl.subscriptions keeps a configured
\* number other than 0 and is null when it is absent, null or 0.
C23_TtlNormalised ==
  Constructed =>
    /\ PacketsNormalised
    /\ IF GivenTtl.subscriptions.t = "number" /\ GivenTtl.subscriptions.n # 0
       THEN ttl.subscriptions = GivenTtl.subscriptions
       ELSE ttl.subscriptions = Null

C23_Witness ==
  /\ Constructed /\ optsTtl.given
  /\ optsTtl.packets = NumPackets(300) /\ ttl.packets.will = Num(300)
  /\ optsTtl.subscriptions = Num(600) /\ ttl.subscriptions = Num(600)

C23_WitnessZero ==
  Constructed /\ optsTtl.given /\ optsTtl.subscriptions = Num(0) /\ ttl.subscriptions = Null

C23_WitnessObject ==
  /\ Constructed /\ optsTtl.given
  /\ optsTtl.packets = PacketsObject(Num(100), Undefined, Num(100), Undefined)
  /\ ttl.packets = optsTtl.packets


(***************************************************************************)
(* Every operation, with callbacks that return and callbacks that throw    *)
(* when first invoked.                                                     *)
(***************************************************************************)
InitCallbacks ==
  /\ InitInstance /\ ttlSubscriptions = 0 /\ pool = "open"
  /\ InitStore /\ InitMatcherIdle
  /\ cbThrows \in BOOLEAN

SpecCallbacks == InitCallbacks /\ [][Next]_vars

\* an operation with a callback returns early or its statement has settled
Completed ==
  /\ ev.op \in CallbackOps
  /\ \/ ev.kind = "call" /\ ev.outcome \in {"notReady", "ok"}
     \/ ev.kind = "settle" /\ ev.outcome # "partial"

\* C24: a call of an operation that takes a callback invokes the callback
\* exactly once, never with a success and then an error, also when the callback
\* throws on its first invocation.
C24_CallbackOnce == Completed => Len(Callbacks(ev.kind, ev.op, ev.outcome)) = 1


(***************************************************************************)
(* C26: outgoingUpdate gives the packet's message id to at most one queued *)
(* packet, also when the client has two queued packets with the packet's   *)
(* topic and payload, and the outgoingClearMessageId that follows removes  *)
(* at most one packet from the queue.                                      *)
(***************************************************************************)
C26_UpdateAtMostOne ==
  [][/\ Completes("outgoingUpdate") =>
          Cardinality({r \in outgoing :
                         \E u \in outgoing' :
                           u.id = r.id /\ u.message_id # r.message_id}) <= 1
     /\ Completes("outgoingClearMessageId") =>
          Cardinality(outgoing) - Cardinality(outgoing') <= 1]_vars


(***************************************************************************)
(* countOffline of one caller while other callers write subscriptions.     *)
(***************************************************************************)
CallRace ==
  \/ \E client \in {ClientOne, ClientTwo} : addSubscriptions(client, <<Sub(TopicA, 1)>>)
  \/ addSubscriptions(ClientOne, <<Sub(TopicA, 1), Sub(TopicPlus, 1)>>)
  \/ removeSubscriptions(ClientOne, <<TopicA>>)
  \/ cleanSubscriptions(ClientTwo)
  \/ ~Counting /\ countOffline

SettleRace ==
  \E c \in calls :
    \/ addSubscriptionsThen(c) \/ removeSubscriptionsThen(c) \/ cleanSubscriptionsThen(c)
    \/ countOfflineThen(c)

NextRace == Lifecycle \/ (CallRace /\ Pending(MaxInflight)) \/ SettleRace

SpecRace == InitOpen /\ [][NextRace]_vars

\* the pair countOffline has returned is one a single state of the relation can give
Consistent(numSubscriptions, numClients) ==
  numClients <= numSubscriptions /\ (numSubscriptions = 0 => numClients = 0)

\* C25 as stated: every pair (numSubscriptions, numClients) that countOffline
\* returns has numClients <= numSubscriptions, and numClients = 0 when
\* numSubscriptions = 0, also when subscription writes of other callers take
\* effect between its two count statements.
C25_CountsConsistent == Settled("countOffline") => Consistent(ev.n1, ev.n2)

\* C25 as amended: the pair is consistent whenever the count statement that runs
\* second finds the relation with as many rows (clients) as the first statement
\* counted, as it does when no subscription write has taken effect between the
\* two statements; writes that are pending, or took effect before or after both
\* statements, do not matter.
C25_CountsConsistentUnlessWritten ==
  [][\A c \in calls :
       (/\ c.op = "countOffline" /\ c \notin calls' /\ Completes("countOffline")
        /\ \/ c.left = {2} /\ c.n1 = CountSubscriptions(subscriptions)
           \/ c.left = {1} /\ c.n2 = CountClients(subscriptions))
       => Consistent(ev'.n1, ev'.n2)]_vars

\* both counts taken of two rows of one client while a write is pending
C25_Witness ==
  /\ Settled("countOffline") /\ ev.n1 = 2 /\ ev.n2 = 1
  /\ \E c \in calls : c.op \in {"addSubscriptions", "removeSubscriptions", "cleanSubscriptions"}


(***************************************************************************)
(* A caller that numbers the packets it enqueues: the payload of a packet  *)
(* tells when its enqueue call was issued.  The caller does not wait for   *)
(* the callback of one call before it issues the next.                     *)
(***************************************************************************)
Numbered == <<"n1", "n2", "n3", "n4", "n5">>

Number(payload) == CHOOSE n \in DOMAIN Numbered : Numbered[n] = payload

NumberedPacket(n) == [PacketOne EXCEPT !.payload = Numbered[n], !.messageId = NullId]

\* the numbers of the enqueue calls that are pending or have inserted their rows
NumbersUsed ==
  {Number(c.packet.payload) : c \in {x \in calls : x.op = "outgoingEnqueueCombi"}}
    \cup {Number(enqLog[i].payload) : i \in DOMAIN enqLog}

NextNumber ==
  IF NumbersUsed = {} THEN 1
  ELSE 1 + (CHOOSE n \in NumbersUsed : \A m \in NumbersUsed : m <= n)

CallOrder ==
  \/ /\ NextNumber \in DOMAIN Numbered /\ NextNumber <= MaxQueue
     /\ \/ outgoingEnqueue(SubOne, NumberedPacket(NextNumber))
        \/ outgoingEnqueueCombi(<<SubOne, SubTwo>>, NumberedPacket(NextNumber))
  \/ \E client \in {ClientOne, ClientTwo} : outgoingStream(client)

SettleOrder ==
  \E c \in calls : outgoingEnqueueCombiThen(c) \/ outgoingStreamThen(c)

NextOrder == Lifecycle \/ (CallOrder /\ Pending(MaxInflight)) \/ SettleOrder

SpecOrder == InitOpen /\ [][NextOrder]_vars

\* the packets come in the order their enqueue calls were issued
InCallOrder(packets) ==
  \A i, j \in DOMAIN packets :
    i < j => Number(packets[i].payload) < Number(packets[j].payload)

\* the pairs of rows of one client queued against the order of their calls
Inversions(tbl) ==
  {<<q[1].id, q[2].id>> :
     q \in {p \in tbl \X tbl : /\ p[1].client_id = p[2].client_id /\ p[1].id < p[2].id
                               /\ Number(p[1].payload) > Number(p[2].payload)}}

\* the insert of a call issued after the call of this packet has already run
Overtaken(packet) == \E r \in outgoing : Number(r.payload) > Number(packet.payload)

\* C27 as stated: outgoingStream(client) yields the packets in the order the
\* enqueue calls for the client were issued, also when a second enqueue is
\* issued before the callback of the first has fired and the two inserts run
\* on different connections of the pool.
C27_StreamInCallOrder == Settled("outgoingStream") => InCallOrder(ev.seq)

\* C27 as amended: outgoingStream(client) yields the packets in the order their
\* inserts ran, which is the order of the calls as long as no insert has run
\* after the insert of a call issued later: only such an insert puts rows
\* against the order of the calls, and with no rows against it the stream
\* yields the packets in the order of the calls.
C27_CallOrderUnlessOvertaken ==
  [][/\ (Completes("outgoingEnqueueCombi") /\ ~Overtaken(ev'.packet))
          => Inversions(outgoing') = Inversions(outgoing)
     /\ (Completes("outgoingStream") /\ Inversions(outgoing) = {})
          => InCallOrder(ev'.seq)
     /\ Completes("outgoingStream")
          => Payloads(ev'.seq) = Payloads(SortById({r \in outgoing :
                                                      r.client_id = ev'.client.id}))]_vars

\* the stream yields three packets of the client in the order of their calls
C27_Witness ==
  /\ Settled("outgoingStream") /\ Len(ev.seq) = 3 /\ InCallOrder(ev.seq)
  /\ Inversions(outgoing) = {}

\* the second call was issued while the first was pending, its insert ran first
C27_WitnessOvertaken ==
  /\ Settled("outgoingStream") /\ Len(ev.seq) = 2
  /\ ev.seq[1].payload = Numbered[2] /\ ev.seq[2].payload = Numbered[1]

====
